---- MODULE Spec2Model ----
(***************************************************************************)
(* Vocabulary conversion and import (frabraga/sanskrit-website).           *)
(*                                                                         *)
(* Three programs are modelled:                                            *)
(*   - the conversion script (src/unnamed/part_000): source CSV ->         *)
(*     normalized CSV;                                                     *)
(*   - the import migration (src/database/migrations/                      *)
(*     2025-10-31-import-vocabulary.js): normalized CSV -> datastore;      *)
(*   - the cleanup migration (src/unnamed/part_001).                       *)
(*                                                                         *)
(* A JavaScript string is a sequence of characters; a character is a       *)
(* one-character TLA+ string for ASCII and the token "U+XXXX" for any      *)
(* other UTF-16 code unit.  A JavaScript value is a tagged record.         *)
(***************************************************************************)
EXTENDS FiniteSets, Integers, Sequences, TLC

VARIABLES
    fn,         \* pure-function harness: which function was applied
    input,      \* pure-function harness: its argument
    output,     \* pure-function harness: its result
    line,       \* parseLine run: the line being split
    pst,        \* parseLine run: the loop state (i, current, inQuotes, values)
    fields,     \* parseLine run: the returned fields, empty until it returns
    csvStage,   \* parser run: "idle", "data", "text" or "parsed"
    csvFrom,    \* parser run: "data" (text made by arrayToCSV) or "raw"
    csvHeaders, \* parser run: the header list given to arrayToCSV
    csvData,    \* parser run: the records given to arrayToCSV
    csvText,    \* parser run: the CSV text
    csvRows,    \* parser run: the records returned by parseCSV
    srcFiles,   \* source spreadsheets: kind -> [exists, content]
    outFiles,   \* normalized CSV files on disk: kind -> [exists, content]
    parsed,     \* conversion script: kind -> the rows parseCSV returned
    converted,  \* conversion script: kind -> the converted records
    db,         \* the vocabulary collection: sequence of [id, data]
    nextId,     \* the id the datastore gives the next created record
    pc,         \* the migration that is running: "idle", "up", "down", "cleanup"
    phase,      \* position inside the running migration
    snapshot,   \* the collection when the running transaction began
    cur,        \* import loop: [kind, rows, idx]
    stats,      \* import: kind -> number of records created in this run
    entries,    \* wipe loop: the entries findMany returned, not yet deleted
    threw,      \* a statement of the running (or last) migration threw
    creates,    \* create calls made by the running (or last) import
    printed,    \* the running (or last) import printed its summary
    lastOp,     \* the migration that finished last, "none" at the start
    runs        \* number of migrations started

fnVars == <<fn, input, output>>
lineVars == <<line, pst, fields>>
csvVars == <<csvStage, csvFrom, csvHeaders, csvData, csvText, csvRows>>
pipeVars == <<srcFiles, outFiles, parsed, converted, db, nextId, pc, phase, snapshot,
              cur, stats, entries, threw, creates, printed, lastOp, runs>>
vars == <<fn, input, output, line, pst, fields,
          csvStage, csvFrom, csvHeaders, csvData, csvText, csvRows,
          srcFiles, outFiles, parsed, converted, db, nextId, pc, phase,
          snapshot, cur, stats, entries, threw, creates, printed, lastOp, runs>>

-----------------------------------------------------------------------------
(* Bounds *)

MaxStrLen == 3      \* longest generated argument of the field mappers
MaxLineLen == 4     \* longest generated line handed to parseLine
MaxFieldLen == 2    \* longest generated field of a record given to arrayToCSV
MaxRecords == 2     \* most records given to arrayToCSV
MaxRawLines == 3    \* most lines of a generated raw CSV text
MaxRows == 2        \* most data lines over the three source spreadsheets
MaxRuns == 2        \* most migrations started in one behaviour

-----------------------------------------------------------------------------
(* JavaScript values *)

Chars(s) == [i \in 1..Len(s) |-> SubSeq(s, i, i)]

Undefined == [t |-> "undefined"]
NaN == [t |-> "NaN"]
Str(s) == [t |-> "string", v |-> s]
Num(n) == [t |-> "number", v |-> n]
Bool(b) == [t |-> "boolean", v |-> b]

\* a built-in function, by the name its text shows
Fn(name) == [t |-> "function", name |-> name]

\* Object.prototype, the prototype of every object literal
ObjectPrototype == [t |-> "object"]

IsStr(x) == x.t = "string"

\* JavaScript truthiness: undefined, '', NaN, 0 and false are falsy
Truthy(x) ==
    CASE x.t = "undefined" -> FALSE
      [] x.t = "function" -> TRUE
      [] x.t = "object" -> TRUE
      [] x.t = "NaN" -> FALSE
      [] x.t = "string" -> x.v # <<>>
      [] x.t = "number" -> x.v # 0
      [] x.t = "boolean" -> x.v

EmDash == "U+2014"
Hyphen == "-"
DQuote == "\""
Comma == ","
LF == "\n"

\* the code units String.prototype.trim removes (WhiteSpace and LineTerminator)
WhiteSpace ==
    {" ", "\t", "\n", "\r", "\f", "U+000B", "U+00A0", "U+1680", "U+2000",
     "U+2001", "U+2002", "U+2003", "U+2004", "U+2005", "U+2006", "U+2007",
     "U+2008", "U+2009", "U+200A", "U+2028", "U+2029", "U+202F", "U+205F",
     "U+3000", "U+FEFF"}

RECURSIVE trimStart(_)
trimStart(s) ==
    IF s # <<>> /\ Head(s) \in WhiteSpace THEN trimStart(Tail(s)) ELSE s

RECURSIVE trimEnd(_)
trimEnd(s) ==
    IF s # <<>> /\ s[Len(s)] \in WhiteSpace
    THEN trimEnd(SubSeq(s, 1, Len(s) - 1))
    ELSE s

\* String.prototype.trim
trim(s) == trimEnd(trimStart(s))

LowerCase == Chars("abcdefghijklmnopqrstuvwxyz")
UpperCase == Chars("ABCDEFGHIJKLMNOPQRSTUVWXYZ")

\* String.prototype.toUpperCase: the code units it changes, each with the
\* code units of its upper case (the Unicode full case mapping)
UpperCaseTable ==
    {
      <<"a", <<"A">>>>, <<"b", <<"B">>>>, <<"c", <<"C">>>>, <<"d", <<"D">>>>, <<"e", <<"E">>>>,
      <<"f", <<"F">>>>, <<"g", <<"G">>>>, <<"h", <<"H">>>>, <<"i", <<"I">>>>, <<"j", <<"J">>>>,
      <<"k", <<"K">>>>, <<"l", <<"L">>>>, <<"m", <<"M">>>>, <<"n", <<"N">>>>, <<"o", <<"O">>>>,
      <<"p", <<"P">>>>, <<"q", <<"Q">>>>, <<"r", <<"R">>>>, <<"s", <<"S">>>>, <<"t", <<"T">>>>,
      <<"u", <<"U">>>>, <<"v", <<"V">>>>, <<"w", <<"W">>>>, <<"x", <<"X">>>>, <<"y", <<"Y">>>>,
      <<"z", <<"Z">>>>, <<"U+00B5", <<"U+039C">>>>, <<"U+00DF", <<"S", "S">>>>,
      <<"U+00E0", <<"U+00C0">>>>, <<"U+00E1", <<"U+00C1">>>>, <<"U+00E2", <<"U+00C2">>>>,
      <<"U+00E3", <<"U+00C3">>>>, <<"U+00E4", <<"U+00C4">>>>, <<"U+00E5", <<"U+00C5">>>>,
      <<"U+00E6", <<"U+00C6">>>>, <<"U+00E7", <<"U+00C7">>>>, <<"U+00E8", <<"U+00C8">>>>,
      <<"U+00E9", <<"U+00C9">>>>, <<"U+00EA", <<"U+00CA">>>>, <<"U+00EB", <<"U+00CB">>>>,
      <<"U+00EC", <<"U+00CC">>>>, <<"U+00ED", <<"U+00CD">>>>, <<"U+00EE", <<"U+00CE">>>>,
      <<"U+00EF", <<"U+00CF">>>>, <<"U+00F0", <<"U+00D0">>>>, <<"U+00F1", <<"U+00D1">>>>,
      <<"U+00F2", <<"U+00D2">>>>, <<"U+00F3", <<"U+00D3">>>>, <<"U+00F4", <<"U+00D4">>>>,
      <<"U+00F5", <<"U+00D5">>>>, <<"U+00F6", <<"U+00D6">>>>, <<"U+00F8", <<"U+00D8">>>>,
      <<"U+00F9", <<"U+00D9">>>>, <<"U+00FA", <<"U+00DA">>>>, <<"U+00FB", <<"U+00DB">>>>,
      <<"U+00FC", <<"U+00DC">>>>, <<"U+00FD", <<"U+00DD">>>>, <<"U+00FE", <<"U+00DE">>>>,
      <<"U+00FF", <<"U+0178">>>>, <<"U+0101", <<"U+0100">>>>, <<"U+0103", <<"U+0102">>>>,
      <<"U+0105", <<"U+0104">>>>, <<"U+0107", <<"U+0106">>>>, <<"U+0109", <<"U+0108">>>>,
      <<"U+010B", <<"U+010A">>>>, <<"U+010D", <<"U+010C">>>>, <<"U+010F", <<"U+010E">>>>,
      <<"U+0111", <<"U+0110">>>>, <<"U+0113", <<"U+0112">>>>, <<"U+0115", <<"U+0114">>>>,
      <<"U+0117", <<"U+0116">>>>, <<"U+0119", <<"U+0118">>>>, <<"U+011B", <<"U+011A">>>>,
      <<"U+011D", <<"U+011C">>>>, <<"U+011F", <<"U+011E">>>>, <<"U+0121", <<"U+0120">>>>,
      <<"U+0123", <<"U+0122">>>>, <<"U+0125", <<"U+0124">>>>, <<"U+0127", <<"U+0126">>>>,
      <<"U+0129", <<"U+0128">>>>, <<"U+012B", <<"U+012A">>>>, <<"U+012D", <<"U+012C">>>>,
      <<"U+012F", <<"U+012E">>>>, <<"U+0131", <<"I">>>>, <<"U+0133", <<"U+0132">>>>,
      <<"U+0135", <<"U+0134">>>>, <<"U+0137", <<"U+0136">>>>, <<"U+013A", <<"U+0139">>>>,
      <<"U+013C", <<"U+013B">>>>, <<"U+013E", <<"U+013D">>>>, <<"U+0140", <<"U+013F">>>>,
      <<"U+0142", <<"U+0141">>>>, <<"U+0144", <<"U+0143">>>>, <<"U+0146", <<"U+0145">>>>,
      <<"U+0148", <<"U+0147">>>>, <<"U+0149", <<"U+02BC", "N">>>>, <<"U+014B", <<"U+014A">>>>,
      <<"U+014D", <<"U+014C">>>>, <<"U+014F", <<"U+014E">>>>, <<"U+0151", <<"U+0150">>>>,
      <<"U+0153", <<"U+0152">>>>, <<"U+0155", <<"U+0154">>>>, <<"U+0157", <<"U+0156">>>>,
      <<"U+0159", <<"U+0158">>>>, <<"U+015B", <<"U+015A">>>>, <<"U+015D", <<"U+015C">>>>,
      <<"U+015F", <<"U+015E">>>>, <<"U+0161", <<"U+0160">>>>, <<"U+0163", <<"U+0162">>>>,
      <<"U+0165", <<"U+0164">>>>, <<"U+0167", <<"U+0166">>>>, <<"U+0169", <<"U+0168">>>>,
      <<"U+016B", <<"U+016A">>>>, <<"U+016D", <<"U+016C">>>>, <<"U+016F", <<"U+016E">>>>,
      <<"U+0171", <<"U+0170">>>>, <<"U+0173", <<"U+0172">>>>, <<"U+0175", <<"U+0174">>>>,
      <<"U+0177", <<"U+0176">>>>, <<"U+017A", <<"U+0179">>>>, <<"U+017C", <<"U+017B">>>>,
      <<"U+017E", <<"U+017D">>>>, <<"U+017F", <<"S">>>>, <<"U+0180", <<"U+0243">>>>,
      <<"U+0183", <<"U+0182">>>>, <<"U+0185", <<"U+0184">>>>, <<"U+0188", <<"U+0187">>>>,
      <<"U+018C", <<"U+018B">>>>, <<"U+0192", <<"U+0191">>>>, <<"U+0195", <<"U+01F6">>>>,
      <<"U+0199", <<"U+0198">>>>, <<"U+019A", <<"U+023D">>>>, <<"U+019B", <<"U+A7DC">>>>,
      <<"U+019E", <<"U+0220">>>>, <<"U+01A1", <<"U+01A0">>>>, <<"U+01A3", <<"U+01A2">>>>,
      <<"U+01A5", <<"U+01A4">>>>, <<"U+01A8", <<"U+01A7">>>>, <<"U+01AD", <<"U+01AC">>>>,
      <<"U+01B0", <<"U+01AF">>>>, <<"U+01B4", <<"U+01B3">>>>, <<"U+01B6", <<"U+01B5">>>>,
      <<"U+01B9", <<"U+01B8">>>>, <<"U+01BD", <<"U+01BC">>>>, <<"U+01BF", <<"U+01F7">>>>,
      <<"U+01C5", <<"U+01C4">>>>, <<"U+01C6", <<"U+01C4">>>>, <<"U+01C8", <<"U+01C7">>>>,
      <<"U+01C9", <<"U+01C7">>>>, <<"U+01CB", <<"U+01CA">>>>, <<"U+01CC", <<"U+01CA">>>>,
      <<"U+01CE", <<"U+01CD">>>>, <<"U+01D0", <<"U+01CF">>>>, <<"U+01D2", <<"U+01D1">>>>,
      <<"U+01D4", <<"U+01D3">>>>, <<"U+01D6", <<"U+01D5">>>>, <<"U+01D8", <<"U+01D7">>>>,
      <<"U+01DA", <<"U+01D9">>>>, <<"U+01DC", <<"U+01DB">>>>, <<"U+01DD", <<"U+018E">>>>,
      <<"U+01DF", <<"U+01DE">>>>, <<"U+01E1", <<"U+01E0">>>>, <<"U+01E3", <<"U+01E2">>>>,
      <<"U+01E5", <<"U+01E4">>>>, <<"U+01E7", <<"U+01E6">>>>, <<"U+01E9", <<"U+01E8">>>>,
      <<"U+01EB", <<"U+01EA">>>>, <<"U+01ED", <<"U+01EC">>>>, <<"U+01EF", <<"U+01EE">>>>,
      <<"U+01F0", <<"J", "U+030C">>>>, <<"U+01F2", <<"U+01F1">>>>, <<"U+01F3", <<"U+01F1">>>>,
      <<"U+01F5", <<"U+01F4">>>>, <<"U+01F9", <<"U+01F8">>>>, <<"U+01FB", <<"U+01FA">>>>,
      <<"U+01FD", <<"U+01FC">>>>, <<"U+01FF", <<"U+01FE">>>>, <<"U+0201", <<"U+0200">>>>,
      <<"U+0203", <<"U+0202">>>>, <<"U+0205", <<"U+0204">>>>, <<"U+0207", <<"U+0206">>>>,
      <<"U+0209", <<"U+0208">>>>, <<"U+020B", <<"U+020A">>>>, <<"U+020D", <<"U+020C">>>>,
      <<"U+020F", <<"U+020E">>>>, <<"U+0211", <<"U+0210">>>>, <<"U+0213", <<"U+0212">>>>,
      <<"U+0215", <<"U+0214">>>>, <<"U+0217", <<"U+0216">>>>, <<"U+0219", <<"U+0218">>>>,
      <<"U+021B", <<"U+021A">>>>, <<"U+021D", <<"U+021C">>>>, <<"U+021F", <<"U+021E">>>>,
      <<"U+0223", <<"U+0222">>>>, <<"U+0225", <<"U+0224">>>>, <<"U+0227", <<"U+0226">>>>,
      <<"U+0229", <<"U+0228">>>>, <<"U+022B", <<"U+022A">>>>, <<"U+022D", <<"U+022C">>>>,
      <<"U+022F", <<"U+022E">>>>, <<"U+0231", <<"U+0230">>>>, <<"U+0233", <<"U+0232">>>>,
      <<"U+023C", <<"U+023B">>>>, <<"U+023F", <<"U+2C7E">>>>, <<"U+0240", <<"U+2C7F">>>>,
      <<"U+0242", <<"U+0241">>>>, <<"U+0247", <<"U+0246">>>>, <<"U+0249", <<"U+0248">>>>,
      <<"U+024B", <<"U+024A">>>>, <<"U+024D", <<"U+024C">>>>, <<"U+024F", <<"U+024E">>>>,
      <<"U+0250", <<"U+2C6F">>>>, <<"U+0251", <<"U+2C6D">>>>, <<"U+0252", <<"U+2C70">>>>,
      <<"U+0253", <<"U+0181">>>>, <<"U+0254", <<"U+0186">>>>, <<"U+0256", <<"U+0189">>>>,
      <<"U+0257", <<"U+018A">>>>, <<"U+0259", <<"U+018F">>>>, <<"U+025B", <<"U+0190">>>>,
      <<"U+025C", <<"U+A7AB">>>>, <<"U+0260", <<"U+0193">>>>, <<"U+0261", <<"U+A7AC">>>>,
      <<"U+0263", <<"U+0194">>>>, <<"U+0264", <<"U+A7CB">>>>, <<"U+0265", <<"U+A78D">>>>,
      <<"U+0266", <<"U+A7AA">>>>, <<"U+0268", <<"U+0197">>>>, <<"U+0269", <<"U+0196">>>>,
      <<"U+026A", <<"U+A7AE">>>>, <<"U+026B", <<"U+2C62">>>>, <<"U+026C", <<"U+A7AD">>>>,
      <<"U+026F", <<"U+019C">>>>, <<"U+0271", <<"U+2C6E">>>>, <<"U+0272", <<"U+019D">>>>,
      <<"U+0275", <<"U+019F">>>>, <<"U+027D", <<"U+2C64">>>>, <<"U+0280", <<"U+01A6">>>>,
      <<"U+0282", <<"U+A7C5">>>>, <<"U+0283", <<"U+01A9">>>>, <<"U+0287", <<"U+A7B1">>>>,
      <<"U+0288", <<"U+01AE">>>>, <<"U+0289", <<"U+0244">>>>, <<"U+028A", <<"U+01B1">>>>,
      <<"U+028B", <<"U+01B2">>>>, <<"U+028C", <<"U+0245">>>>, <<"U+0292", <<"U+01B7">>>>,
      <<"U+029D", <<"U+A7B2">>>>, <<"U+029E", <<"U+A7B0">>>>, <<"U+0345", <<"U+0399">>>>,
      <<"U+0371", <<"U+0370">>>>, <<"U+0373", <<"U+0372">>>>, <<"U+0377", <<"U+0376">>>>,
      <<"U+037B", <<"U+03FD">>>>, <<"U+037C", <<"U+03FE">>>>, <<"U+037D", <<"U+03FF">>>>,
      <<"U+0390", <<"U+0399", "U+0308", "U+0301">>>>, <<"U+03AC", <<"U+0386">>>>,
      <<"U+03AD", <<"U+0388">>>>, <<"U+03AE", <<"U+0389">>>>, <<"U+03AF", <<"U+038A">>>>,
      <<"U+03B0", <<"U+03A5", "U+0308", "U+0301">>>>, <<"U+03B1", <<"U+0391">>>>,
      <<"U+03B2", <<"U+0392">>>>, <<"U+03B3", <<"U+0393">>>>, <<"U+03B4", <<"U+0394">>>>,
      <<"U+03B5", <<"U+0395">>>>, <<"U+03B6", <<"U+0396">>>>, <<"U+03B7", <<"U+0397">>>>,
      <<"U+03B8", <<"U+0398">>>>, <<"U+03B9", <<"U+0399">>>>, <<"U+03BA", <<"U+039A">>>>,
      <<"U+03BB", <<"U+039B">>>>, <<"U+03BC", <<"U+039C">>>>, <<"U+03BD", <<"U+039D">>>>,
      <<"U+03BE", <<"U+039E">>>>, <<"U+03BF", <<"U+039F">>>>, <<"U+03C0", <<"U+03A0">>>>,
      <<"U+03C1", <<"U+03A1">>>>, <<"U+03C2", <<"U+03A3">>>>, <<"U+03C3", <<"U+03A3">>>>,
      <<"U+03C4", <<"U+03A4">>>>, <<"U+03C5", <<"U+03A5">>>>, <<"U+03C6", <<"U+03A6">>>>,
      <<"U+03C7", <<"U+03A7">>>>, <<"U+03C8", <<"U+03A8">>>>, <<"U+03C9", <<"U+03A9">>>>,
      <<"U+03CA", <<"U+03AA">>>>, <<"U+03CB", <<"U+03AB">>>>, <<"U+03CC", <<"U+038C">>>>,
      <<"U+03CD", <<"U+038E">>>>, <<"U+03CE", <<"U+038F">>>>, <<"U+03D0", <<"U+0392">>>>,
      <<"U+03D1", <<"U+0398">>>>, <<"U+03D5", <<"U+03A6">>>>, <<"U+03D6", <<"U+03A0">>>>,
      <<"U+03D7", <<"U+03CF">>>>, <<"U+03D9", <<"U+03D8">>>>, <<"U+03DB", <<"U+03DA">>>>,
      <<"U+03DD", <<"U+03DC">>>>, <<"U+03DF", <<"U+03DE">>>>, <<"U+03E1", <<"U+03E0">>>>,
      <<"U+03E3", <<"U+03E2">>>>, <<"U+03E5", <<"U+03E4">>>>, <<"U+03E7", <<"U+03E6">>>>,
      <<"U+03E9", <<"U+03E8">>>>, <<"U+03EB", <<"U+03EA">>>>, <<"U+03ED", <<"U+03EC">>>>,
      <<"U+03EF", <<"U+03EE">>>>, <<"U+03F0", <<"U+039A">>>>, <<"U+03F1", <<"U+03A1">>>>,
      <<"U+03F2", <<"U+03F9">>>>, <<"U+03F3", <<"U+037F">>>>, <<"U+03F5", <<"U+0395">>>>,
      <<"U+03F8", <<"U+03F7">>>>, <<"U+03FB", <<"U+03FA">>>>, <<"U+0430", <<"U+0410">>>>,
      <<"U+0431", <<"U+0411">>>>, <<"U+0432", <<"U+0412">>>>, <<"U+0433", <<"U+0413">>>>,
      <<"U+0434", <<"U+0414">>>>, <<"U+0435", <<"U+0415">>>>, <<"U+0436", <<"U+0416">>>>,
      <<"U+0437", <<"U+0417">>>>, <<"U+0438", <<"U+0418">>>>, <<"U+0439", <<"U+0419">>>>,
      <<"U+043A", <<"U+041A">>>>, <<"U+043B", <<"U+041B">>>>, <<"U+043C", <<"U+041C">>>>,
      <<"U+043D", <<"U+041D">>>>, <<"U+043E", <<"U+041E">>>>, <<"U+043F", <<"U+041F">>>>,
      <<"U+0440", <<"U+0420">>>>, <<"U+0441", <<"U+0421">>>>, <<"U+0442", <<"U+0422">>>>,
      <<"U+0443", <<"U+0423">>>>, <<"U+0444", <<"U+0424">>>>, <<"U+0445", <<"U+0425">>>>,
      <<"U+0446", <<"U+0426">>>>, <<"U+0447", <<"U+0427">>>>, <<"U+0448", <<"U+0428">>>>,
      <<"U+0449", <<"U+0429">>>>, <<"U+044A", <<"U+042A">>>>, <<"U+044B", <<"U+042B">>>>,
      <<"U+044C", <<"U+042C">>>>, <<"U+044D", <<"U+042D">>>>, <<"U+044E", <<"U+042E">>>>,
      <<"U+044F", <<"U+042F">>>>, <<"U+0450", <<"U+0400">>>>, <<"U+0451", <<"U+0401">>>>,
      <<"U+0452", <<"U+0402">>>>, <<"U+0453", <<"U+0403">>>>, <<"U+0454", <<"U+0404">>>>,
      <<"U+0455", <<"U+0405">>>>, <<"U+0456", <<"U+0406">>>>, <<"U+0457", <<"U+0407">>>>,
      <<"U+0458", <<"U+0408">>>>, <<"U+0459", <<"U+0409">>>>, <<"U+045A", <<"U+040A">>>>,
      <<"U+045B", <<"U+040B">>>>, <<"U+045C", <<"U+040C">>>>, <<"U+045D", <<"U+040D">>>>,
      <<"U+045E", <<"U+040E">>>>, <<"U+045F", <<"U+040F">>>>, <<"U+0461", <<"U+0460">>>>,
      <<"U+0463", <<"U+0462">>>>, <<"U+0465", <<"U+0464">>>>, <<"U+0467", <<"U+0466">>>>,
      <<"U+0469", <<"U+0468">>>>, <<"U+046B", <<"U+046A">>>>, <<"U+046D", <<"U+046C">>>>,
      <<"U+046F", <<"U+046E">>>>, <<"U+0471", <<"U+0470">>>>, <<"U+0473", <<"U+0472">>>>,
      <<"U+0475", <<"U+0474">>>>, <<"U+0477", <<"U+0476">>>>, <<"U+0479", <<"U+0478">>>>,
      <<"U+047B", <<"U+047A">>>>, <<"U+047D", <<"U+047C">>>>, <<"U+047F", <<"U+047E">>>>,
      <<"U+0481", <<"U+0480">>>>, <<"U+048B", <<"U+048A">>>>, <<"U+048D", <<"U+048C">>>>,
      <<"U+048F", <<"U+048E">>>>, <<"U+0491", <<"U+0490">>>>, <<"U+0493", <<"U+0492">>>>,
      <<"U+0495", <<"U+0494">>>>, <<"U+0497", <<"U+0496">>>>, <<"U+0499", <<"U+0498">>>>,
      <<"U+049B", <<"U+049A">>>>, <<"U+049D", <<"U+049C">>>>, <<"U+049F", <<"U+049E">>>>,
      <<"U+04A1", <<"U+04A0">>>>, <<"U+04A3", <<"U+04A2">>>>, <<"U+04A5", <<"U+04A4">>>>,
      <<"U+04A7", <<"U+04A6">>>>, <<"U+04A9", <<"U+04A8">>>>, <<"U+04AB", <<"U+04AA">>>>,
      <<"U+04AD", <<"U+04AC">>>>, <<"U+04AF", <<"U+04AE">>>>, <<"U+04B1", <<"U+04B0">>>>,
      <<"U+04B3", <<"U+04B2">>>>, <<"U+04B5", <<"U+04B4">>>>, <<"U+04B7", <<"U+04B6">>>>,
      <<"U+04B9", <<"U+04B8">>>>, <<"U+04BB", <<"U+04BA">>>>, <<"U+04BD", <<"U+04BC">>>>,
      <<"U+04BF", <<"U+04BE">>>>, <<"U+04C2", <<"U+04C1">>>>, <<"U+04C4", <<"U+04C3">>>>,
      <<"U+04C6", <<"U+04C5">>>>, <<"U+04C8", <<"U+04C7">>>>, <<"U+04CA", <<"U+04C9">>>>,
      <<"U+04CC", <<"U+04CB">>>>, <<"U+04CE", <<"U+04CD">>>>, <<"U+04CF", <<"U+04C0">>>>,
      <<"U+04D1", <<"U+04D0">>>>, <<"U+04D3", <<"U+04D2">>>>, <<"U+04D5", <<"U+04D4">>>>,
      <<"U+04D7", <<"U+04D6">>>>, <<"U+04D9", <<"U+04D8">>>>, <<"U+04DB", <<"U+04DA">>>>,
      <<"U+04DD", <<"U+04DC">>>>, <<"U+04DF", <<"U+04DE">>>>, <<"U+04E1", <<"U+04E0">>>>,
      <<"U+04E3", <<"U+04E2">>>>, <<"U+04E5", <<"U+04E4">>>>, <<"U+04E7", <<"U+04E6">>>>,
      <<"U+04E9", <<"U+04E8">>>>, <<"U+04EB", <<"U+04EA">>>>, <<"U+04ED", <<"U+04EC">>>>,
      <<"U+04EF", <<"U+04EE">>>>, <<"U+04F1", <<"U+04F0">>>>, <<"U+04F3", <<"U+04F2">>>>,
      <<"U+04F5", <<"U+04F4">>>>, <<"U+04F7", <<"U+04F6">>>>, <<"U+04F9", <<"U+04F8">>>>,
      <<"U+04FB", <<"U+04FA">>>>, <<"U+04FD", <<"U+04FC">>>>, <<"U+04FF", <<"U+04FE">>>>,
      <<"U+0501", <<"U+0500">>>>, <<"U+0503", <<"U+0502">>>>, <<"U+0505", <<"U+0504">>>>,
      <<"U+0507", <<"U+0506">>>>, <<"U+0509", <<"U+0508">>>>, <<"U+050B", <<"U+050A">>>>,
      <<"U+050D", <<"U+050C">>>>, <<"U+050F", <<"U+050E">>>>, <<"U+0511", <<"U+0510">>>>,
      <<"U+0513", <<"U+0512">>>>, <<"U+0515", <<"U+0514">>>>, <<"U+0517", <<"U+0516">>>>,
      <<"U+0519", <<"U+0518">>>>, <<"U+051B", <<"U+051A">>>>, <<"U+051D", <<"U+051C">>>>,
      <<"U+051F", <<"U+051E">>>>, <<"U+0521", <<"U+0520">>>>, <<"U+0523", <<"U+0522">>>>,
      <<"U+0525", <<"U+0524">>>>, <<"U+0527", <<"U+0526">>>>, <<"U+0529", <<"U+0528">>>>,
      <<"U+052B", <<"U+052A">>>>, <<"U+052D", <<"U+052C">>>>, <<"U+052F", <<"U+052E">>>>,
      <<"U+0561", <<"U+0531">>>>, <<"U+0562", <<"U+0532">>>>, <<"U+0563", <<"U+0533">>>>,
      <<"U+0564", <<"U+0534">>>>, <<"U+0565", <<"U+0535">>>>, <<"U+0566", <<"U+0536">>>>,
      <<"U+0567", <<"U+0537">>>>, <<"U+0568", <<"U+0538">>>>, <<"U+0569", <<"U+0539">>>>,
      <<"U+056A", <<"U+053A">>>>, <<"U+056B", <<"U+053B">>>>, <<"U+056C", <<"U+053C">>>>,
      <<"U+056D", <<"U+053D">>>>, <<"U+056E", <<"U+053E">>>>, <<"U+056F", <<"U+053F">>>>,
      <<"U+0570", <<"U+0540">>>>, <<"U+0571", <<"U+0541">>>>, <<"U+0572", <<"U+0542">>>>,
      <<"U+0573", <<"U+0543">>>>, <<"U+0574", <<"U+0544">>>>, <<"U+0575", <<"U+0545">>>>,
      <<"U+0576", <<"U+0546">>>>, <<"U+0577", <<"U+0547">>>>, <<"U+0578", <<"U+0548">>>>,
      <<"U+0579", <<"U+0549">>>>, <<"U+057A", <<"U+054A">>>>, <<"U+057B", <<"U+054B">>>>,
      <<"U+057C", <<"U+054C">>>>, <<"U+057D", <<"U+054D">>>>, <<"U+057E", <<"U+054E">>>>,
      <<"U+057F", <<"U+054F">>>>, <<"U+0580", <<"U+0550">>>>, <<"U+0581", <<"U+0551">>>>,
      <<"U+0582", <<"U+0552">>>>, <<"U+0583", <<"U+0553">>>>, <<"U+0584", <<"U+0554">>>>,
      <<"U+0585", <<"U+0555">>>>, <<"U+0586", <<"U+0556">>>>,
      <<"U+0587", <<"U+0535", "U+0552">>>>, <<"U+10D0", <<"U+1C90">>>>,
      <<"U+10D1", <<"U+1C91">>>>, <<"U+10D2", <<"U+1C92">>>>, <<"U+10D3", <<"U+1C93">>>>,
      <<"U+10D4", <<"U+1C94">>>>, <<"U+10D5", <<"U+1C95">>>>, <<"U+10D6", <<"U+1C96">>>>,
      <<"U+10D7", <<"U+1C97">>>>, <<"U+10D8", <<"U+1C98">>>>, <<"U+10D9", <<"U+1C99">>>>,
      <<"U+10DA", <<"U+1C9A">>>>, <<"U+10DB", <<"U+1C9B">>>>, <<"U+10DC", <<"U+1C9C">>>>,
      <<"U+10DD", <<"U+1C9D">>>>, <<"U+10DE", <<"U+1C9E">>>>, <<"U+10DF", <<"U+1C9F">>>>,
      <<"U+10E0", <<"U+1CA0">>>>, <<"U+10E1", <<"U+1CA1">>>>, <<"U+10E2", <<"U+1CA2">>>>,
      <<"U+10E3", <<"U+1CA3">>>>, <<"U+10E4", <<"U+1CA4">>>>, <<"U+10E5", <<"U+1CA5">>>>,
      <<"U+10E6", <<"U+1CA6">>>>, <<"U+10E7", <<"U+1CA7">>>>, <<"U+10E8", <<"U+1CA8">>>>,
      <<"U+10E9", <<"U+1CA9">>>>, <<"U+10EA", <<"U+1CAA">>>>, <<"U+10EB", <<"U+1CAB">>>>,
      <<"U+10EC", <<"U+1CAC">>>>, <<"U+10ED", <<"U+1CAD">>>>, <<"U+10EE", <<"U+1CAE">>>>,
      <<"U+10EF", <<"U+1CAF">>>>, <<"U+10F0", <<"U+1CB0">>>>, <<"U+10F1", <<"U+1CB1">>>>,
      <<"U+10F2", <<"U+1CB2">>>>, <<"U+10F3", <<"U+1CB3">>>>, <<"U+10F4", <<"U+1CB4">>>>,
      <<"U+10F5", <<"U+1CB5">>>>, <<"U+10F6", <<"U+1CB6">>>>, <<"U+10F7", <<"U+1CB7">>>>,
      <<"U+10F8", <<"U+1CB8">>>>, <<"U+10F9", <<"U+1CB9">>>>, <<"U+10FA", <<"U+1CBA">>>>,
      <<"U+10FD", <<"U+1CBD">>>>, <<"U+10FE", <<"U+1CBE">>>>, <<"U+10FF", <<"U+1CBF">>>>,
      <<"U+13F8", <<"U+13F0">>>>, <<"U+13F9", <<"U+13F1">>>>, <<"U+13FA", <<"U+13F2">>>>,
      <<"U+13FB", <<"U+13F3">>>>, <<"U+13FC", <<"U+13F4">>>>, <<"U+13FD", <<"U+13F5">>>>,
      <<"U+1C80", <<"U+0412">>>>, <<"U+1C81", <<"U+0414">>>>, <<"U+1C82", <<"U+041E">>>>,
      <<"U+1C83", <<"U+0421">>>>, <<"U+1C84", <<"U+0422">>>>, <<"U+1C85", <<"U+0422">>>>,
      <<"U+1C86", <<"U+042A">>>>, <<"U+1C87", <<"U+0462">>>>, <<"U+1C88", <<"U+A64A">>>>,
      <<"U+1C8A", <<"U+1C89">>>>, <<"U+1D79", <<"U+A77D">>>>, <<"U+1D7D", <<"U+2C63">>>>,
      <<"U+1D8E", <<"U+A7C6">>>>, <<"U+1E01", <<"U+1E00">>>>, <<"U+1E03", <<"U+1E02">>>>,
      <<"U+1E05", <<"U+1E04">>>>, <<"U+1E07", <<"U+1E06">>>>, <<"U+1E09", <<"U+1E08">>>>,
      <<"U+1E0B", <<"U+1E0A">>>>, <<"U+1E0D", <<"U+1E0C">>>>, <<"U+1E0F", <<"U+1E0E">>>>,
      <<"U+1E11", <<"U+1E10">>>>, <<"U+1E13", <<"U+1E12">>>>, <<"U+1E15", <<"U+1E14">>>>,
      <<"U+1E17", <<"U+1E16">>>>, <<"U+1E19", <<"U+1E18">>>>, <<"U+1E1B", <<"U+1E1A">>>>,
      <<"U+1E1D", <<"U+1E1C">>>>, <<"U+1E1F", <<"U+1E1E">>>>, <<"U+1E21", <<"U+1E20">>>>,
      <<"U+1E23", <<"U+1E22">>>>, <<"U+1E25", <<"U+1E24">>>>, <<"U+1E27", <<"U+1E26">>>>,
      <<"U+1E29", <<"U+1E28">>>>, <<"U+1E2B", <<"U+1E2A">>>>, <<"U+1E2D", <<"U+1E2C">>>>,
      <<"U+1E2F", <<"U+1E2E">>>>, <<"U+1E31", <<"U+1E30">>>>, <<"U+1E33", <<"U+1E32">>>>,
      <<"U+1E35", <<"U+1E34">>>>, <<"U+1E37", <<"U+1E36">>>>, <<"U+1E39", <<"U+1E38">>>>,
      <<"U+1E3B", <<"U+1E3A">>>>, <<"U+1E3D", <<"U+1E3C">>>>, <<"U+1E3F", <<"U+1E3E">>>>,
      <<"U+1E41", <<"U+1E40">>>>, <<"U+1E43", <<"U+1E42">>>>, <<"U+1E45", <<"U+1E44">>>>,
      <<"U+1E47", <<"U+1E46">>>>, <<"U+1E49", <<"U+1E48">>>>, <<"U+1E4B", <<"U+1E4A">>>>,
      <<"U+1E4D", <<"U+1E4C">>>>, <<"U+1E4F", <<"U+1E4E">>>>, <<"U+1E51", <<"U+1E50">>>>,
      <<"U+1E53", <<"U+1E52">>>>, <<"U+1E55", <<"U+1E54">>>>, <<"U+1E57", <<"U+1E56">>>>,
      <<"U+1E59", <<"U+1E58">>>>, <<"U+1E5B", <<"U+1E5A">>>>, <<"U+1E5D", <<"U+1E5C">>>>,
      <<"U+1E5F", <<"U+1E5E">>>>, <<"U+1E61", <<"U+1E60">>>>, <<"U+1E63", <<"U+1E62">>>>,
      <<"U+1E65", <<"U+1E64">>>>, <<"U+1E67", <<"U+1E66">>>>, <<"U+1E69", <<"U+1E68">>>>,
      <<"U+1E6B", <<"U+1E6A">>>>, <<"U+1E6D", <<"U+1E6C">>>>, <<"U+1E6F", <<"U+1E6E">>>>,
      <<"U+1E71", <<"U+1E70">>>>, <<"U+1E73", <<"U+1E72">>>>, <<"U+1E75", <<"U+1E74">>>>,
      <<"U+1E77", <<"U+1E76">>>>, <<"U+1E79", <<"U+1E78">>>>, <<"U+1E7B", <<"U+1E7A">>>>,
      <<"U+1E7D", <<"U+1E7C">>>>, <<"U+1E7F", <<"U+1E7E">>>>, <<"U+1E81", <<"U+1E80">>>>,
      <<"U+1E83", <<"U+1E82">>>>, <<"U+1E85", <<"U+1E84">>>>, <<"U+1E87", <<"U+1E86">>>>,
      <<"U+1E89", <<"U+1E88">>>>, <<"U+1E8B", <<"U+1E8A">>>>, <<"U+1E8D", <<"U+1E8C">>>>,
      <<"U+1E8F", <<"U+1E8E">>>>, <<"U+1E91", <<"U+1E90">>>>, <<"U+1E93", <<"U+1E92">>>>,
      <<"U+1E95", <<"U+1E94">>>>, <<"U+1E96", <<"H", "U+0331">>>>,
      <<"U+1E97", <<"T", "U+0308">>>>, <<"U+1E98", <<"W", "U+030A">>>>,
      <<"U+1E99", <<"Y", "U+030A">>>>, <<"U+1E9A", <<"A", "U+02BE">>>>,
      <<"U+1E9B", <<"U+1E60">>>>, <<"U+1EA1", <<"U+1EA0">>>>, <<"U+1EA3", <<"U+1EA2">>>>,
      <<"U+1EA5", <<"U+1EA4">>>>, <<"U+1EA7", <<"U+1EA6">>>>, <<"U+1EA9", <<"U+1EA8">>>>,
      <<"U+1EAB", <<"U+1EAA">>>>, <<"U+1EAD", <<"U+1EAC">>>>, <<"U+1EAF", <<"U+1EAE">>>>,
      <<"U+1EB1", <<"U+1EB0">>>>, <<"U+1EB3", <<"U+1EB2">>>>, <<"U+1EB5", <<"U+1EB4">>>>,
      <<"U+1EB7", <<"U+1EB6">>>>, <<"U+1EB9", <<"U+1EB8">>>>, <<"U+1EBB", <<"U+1EBA">>>>,
      <<"U+1EBD", <<"U+1EBC">>>>, <<"U+1EBF", <<"U+1EBE">>>>, <<"U+1EC1", <<"U+1EC0">>>>,
      <<"U+1EC3", <<"U+1EC2">>>>, <<"U+1EC5", <<"U+1EC4">>>>, <<"U+1EC7", <<"U+1EC6">>>>,
      <<"U+1EC9", <<"U+1EC8">>>>, <<"U+1ECB", <<"U+1ECA">>>>, <<"U+1ECD", <<"U+1ECC">>>>,
      <<"U+1ECF", <<"U+1ECE">>>>, <<"U+1ED1", <<"U+1ED0">>>>, <<"U+1ED3", <<"U+1ED2">>>>,
      <<"U+1ED5", <<"U+1ED4">>>>, <<"U+1ED7", <<"U+1ED6">>>>, <<"U+1ED9", <<"U+1ED8">>>>,
      <<"U+1EDB", <<"U+1EDA">>>>, <<"U+1EDD", <<"U+1EDC">>>>, <<"U+1EDF", <<"U+1EDE">>>>,
      <<"U+1EE1", <<"U+1EE0">>>>, <<"U+1EE3", <<"U+1EE2">>>>, <<"U+1EE5", <<"U+1EE4">>>>,
      <<"U+1EE7", <<"U+1EE6">>>>, <<"U+1EE9", <<"U+1EE8">>>>, <<"U+1EEB", <<"U+1EEA">>>>,
      <<"U+1EED", <<"U+1EEC">>>>, <<"U+1EEF", <<"U+1EEE">>>>, <<"U+1EF1", <<"U+1EF0">>>>,
      <<"U+1EF3", <<"U+1EF2">>>>, <<"U+1EF5", <<"U+1EF4">>>>, <<"U+1EF7", <<"U+1EF6">>>>,
      <<"U+1EF9", <<"U+1EF8">>>>, <<"U+1EFB", <<"U+1EFA">>>>, <<"U+1EFD", <<"U+1EFC">>>>,
      <<"U+1EFF", <<"U+1EFE">>>>, <<"U+1F00", <<"U+1F08">>>>, <<"U+1F01", <<"U+1F09">>>>,
      <<"U+1F02", <<"U+1F0A">>>>, <<"U+1F03", <<"U+1F0B">>>>, <<"U+1F04", <<"U+1F0C">>>>,
      <<"U+1F05", <<"U+1F0D">>>>, <<"U+1F06", <<"U+1F0E">>>>, <<"U+1F07", <<"U+1F0F">>>>,
      <<"U+1F10", <<"U+1F18">>>>, <<"U+1F11", <<"U+1F19">>>>, <<"U+1F12", <<"U+1F1A">>>>,
      <<"U+1F13", <<"U+1F1B">>>>, <<"U+1F14", <<"U+1F1C">>>>, <<"U+1F15", <<"U+1F1D">>>>,
      <<"U+1F20", <<"U+1F28">>>>, <<"U+1F21", <<"U+1F29">>>>, <<"U+1F22", <<"U+1F2A">>>>,
      <<"U+1F23", <<"U+1F2B">>>>, <<"U+1F24", <<"U+1F2C">>>>, <<"U+1F25", <<"U+1F2D">>>>,
      <<"U+1F26", <<"U+1F2E">>>>, <<"U+1F27", <<"U+1F2F">>>>, <<"U+1F30", <<"U+1F38">>>>,
      <<"U+1F31", <<"U+1F39">>>>, <<"U+1F32", <<"U+1F3A">>>>, <<"U+1F33", <<"U+1F3B">>>>,
      <<"U+1F34", <<"U+1F3C">>>>, <<"U+1F35", <<"U+1F3D">>>>, <<"U+1F36", <<"U+1F3E">>>>,
      <<"U+1F37", <<"U+1F3F">>>>, <<"U+1F40", <<"U+1F48">>>>, <<"U+1F41", <<"U+1F49">>>>,
      <<"U+1F42", <<"U+1F4A">>>>, <<"U+1F43", <<"U+1F4B">>>>, <<"U+1F44", <<"U+1F4C">>>>,
      <<"U+1F45", <<"U+1F4D">>>>, <<"U+1F50", <<"U+03A5", "U+0313">>>>,
      <<"U+1F51", <<"U+1F59">>>>, <<"U+1F52", <<"U+03A5", "U+0313", "U+0300">>>>,
      <<"U+1F53", <<"U+1F5B">>>>, <<"U+1F54", <<"U+03A5", "U+0313", "U+0301">>>>,
      <<"U+1F55", <<"U+1F5D">>>>, <<"U+1F56", <<"U+03A5", "U+0313", "U+0342">>>>,
      <<"U+1F57", <<"U+1F5F">>>>, <<"U+1F60", <<"U+1F68">>>>, <<"U+1F61", <<"U+1F69">>>>,
      <<"U+1F62", <<"U+1F6A">>>>, <<"U+1F63", <<"U+1F6B">>>>, <<"U+1F64", <<"U+1F6C">>>>,
      <<"U+1F65", <<"U+1F6D">>>>, <<"U+1F66", <<"U+1F6E">>>>, <<"U+1F67", <<"U+1F6F">>>>,
      <<"U+1F70", <<"U+1FBA">>>>, <<"U+1F71", <<"U+1FBB">>>>, <<"U+1F72", <<"U+1FC8">>>>,
      <<"U+1F73", <<"U+1FC9">>>>, <<"U+1F74", <<"U+1FCA">>>>, <<"U+1F75", <<"U+1FCB">>>>,
      <<"U+1F76", <<"U+1FDA">>>>, <<"U+1F77", <<"U+1FDB">>>>, <<"U+1F78", <<"U+1FF8">>>>,
      <<"U+1F79", <<"U+1FF9">>>>, <<"U+1F7A", <<"U+1FEA">>>>, <<"U+1F7B", <<"U+1FEB">>>>,
      <<"U+1F7C", <<"U+1FFA">>>>, <<"U+1F7D", <<"U+1FFB">>>>,
      <<"U+1F80", <<"U+1F08", "U+0399">>>>, <<"U+1F81", <<"U+1F09", "U+0399">>>>,
      <<"U+1F82", <<"U+1F0A", "U+0399">>>>, <<"U+1F83", <<"U+1F0B", "U+0399">>>>,
      <<"U+1F84", <<"U+1F0C", "U+0399">>>>, <<"U+1F85", <<"U+1F0D", "U+0399">>>>,
      <<"U+1F86", <<"U+1F0E", "U+0399">>>>, <<"U+1F87", <<"U+1F0F", "U+0399">>>>,
      <<"U+1F88", <<"U+1F08", "U+0399">>>>, <<"U+1F89", <<"U+1F09", "U+0399">>>>,
      <<"U+1F8A", <<"U+1F0A", "U+0399">>>>, <<"U+1F8B", <<"U+1F0B", "U+0399">>>>,
      <<"U+1F8C", <<"U+1F0C", "U+0399">>>>, <<"U+1F8D", <<"U+1F0D", "U+0399">>>>,
      <<"U+1F8E", <<"U+1F0E", "U+0399">>>>, <<"U+1F8F", <<"U+1F0F", "U+0399">>>>,
      <<"U+1F90", <<"U+1F28", "U+0399">>>>, <<"U+1F91", <<"U+1F29", "U+0399">>>>,
      <<"U+1F92", <<"U+1F2A", "U+0399">>>>, <<"U+1F93", <<"U+1F2B", "U+0399">>>>,
      <<"U+1F94", <<"U+1F2C", "U+0399">>>>, <<"U+1F95", <<"U+1F2D", "U+0399">>>>,
      <<"U+1F96", <<"U+1F2E", "U+0399">>>>, <<"U+1F97", <<"U+1F2F", "U+0399">>>>,
      <<"U+1F98", <<"U+1F28", "U+0399">>>>, <<"U+1F99", <<"U+1F29", "U+0399">>>>,
      <<"U+1F9A", <<"U+1F2A", "U+0399">>>>, <<"U+1F9B", <<"U+1F2B", "U+0399">>>>,
      <<"U+1F9C", <<"U+1F2C", "U+0399">>>>, <<"U+1F9D", <<"U+1F2D", "U+0399">>>>,
      <<"U+1F9E", <<"U+1F2E", "U+0399">>>>, <<"U+1F9F", <<"U+1F2F", "U+0399">>>>,
      <<"U+1FA0", <<"U+1F68", "U+0399">>>>, <<"U+1FA1", <<"U+1F69", "U+0399">>>>,
      <<"U+1FA2", <<"U+1F6A", "U+0399">>>>, <<"U+1FA3", <<"U+1F6B", "U+0399">>>>,
      <<"U+1FA4", <<"U+1F6C", "U+0399">>>>, <<"U+1FA5", <<"U+1F6D", "U+0399">>>>,
      <<"U+1FA6", <<"U+1F6E", "U+0399">>>>, <<"U+1FA7", <<"U+1F6F", "U+0399">>>>,
      <<"U+1FA8", <<"U+1F68", "U+0399">>>>, <<"U+1FA9", <<"U+1F69", "U+0399">>>>,
      <<"U+1FAA", <<"U+1F6A", "U+0399">>>>, <<"U+1FAB", <<"U+1F6B", "U+0399">>>>,
      <<"U+1FAC", <<"U+1F6C", "U+0399">>>>, <<"U+1FAD", <<"U+1F6D", "U+0399">>>>,
      <<"U+1FAE", <<"U+1F6E", "U+0399">>>>, <<"U+1FAF", <<"U+1F6F", "U+0399">>>>,
      <<"U+1FB0", <<"U+1FB8">>>>, <<"U+1FB1", <<"U+1FB9">>>>,
      <<"U+1FB2", <<"U+1FBA", "U+0399">>>>, <<"U+1FB3", <<"U+0391", "U+0399">>>>,
      <<"U+1FB4", <<"U+0386", "U+0399">>>>, <<"U+1FB6", <<"U+0391", "U+0342">>>>,
      <<"U+1FB7", <<"U+0391", "U+0342", "U+0399">>>>, <<"U+1FBC", <<"U+0391", "U+0399">>>>,
      <<"U+1FBE", <<"U+0399">>>>, <<"U+1FC2", <<"U+1FCA", "U+0399">>>>,
      <<"U+1FC3", <<"U+0397", "U+0399">>>>, <<"U+1FC4", <<"U+0389", "U+0399">>>>,
      <<"U+1FC6", <<"U+0397", "U+0342">>>>, <<"U+1FC7", <<"U+0397", "U+0342", "U+0399">>>>,
      <<"U+1FCC", <<"U+0397", "U+0399">>>>, <<"U+1FD0", <<"U+1FD8">>>>,
      <<"U+1FD1", <<"U+1FD9">>>>, <<"U+1FD2", <<"U+0399", "U+0308", "U+0300">>>>,
      <<"U+1FD3", <<"U+0399", "U+0308", "U+0301">>>>, <<"U+1FD6", <<"U+0399", "U+0342">>>>,
      <<"U+1FD7", <<"U+0399", "U+0308", "U+0342">>>>, <<"U+1FE0", <<"U+1FE8">>>>,
      <<"U+1FE1", <<"U+1FE9">>>>, <<"U+1FE2", <<"U+03A5", "U+0308", "U+0300">>>>,
      <<"U+1FE3", <<"U+03A5", "U+0308", "U+0301">>>>, <<"U+1FE4", <<"U+03A1", "U+0313">>>>,
      <<"U+1FE5", <<"U+1FEC">>>>, <<"U+1FE6", <<"U+03A5", "U+0342">>>>,
      <<"U+1FE7", <<"U+03A5", "U+0308", "U+0342">>>>, <<"U+1FF2", <<"U+1FFA", "U+0399">>>>,
      <<"U+1FF3", <<"U+03A9", "U+0399">>>>, <<"U+1FF4", <<"U+038F", "U+0399">>>>,
      <<"U+1FF6", <<"U+03A9", "U+0342">>>>, <<"U+1FF7", <<"U+03A9", "U+0342", "U+0399">>>>,
      <<"U+1FFC", <<"U+03A9", "U+0399">>>>, <<"U+214E", <<"U+2132">>>>,
      <<"U+2170", <<"U+2160">>>>, <<"U+2171", <<"U+2161">>>>, <<"U+2172", <<"U+2162">>>>,
      <<"U+2173", <<"U+2163">>>>, <<"U+2174", <<"U+2164">>>>, <<"U+2175", <<"U+2165">>>>,
      <<"U+2176", <<"U+2166">>>>, <<"U+2177", <<"U+2167">>>>, <<"U+2178", <<"U+2168">>>>,
      <<"U+2179", <<"U+2169">>>>, <<"U+217A", <<"U+216A">>>>, <<"U+217B", <<"U+216B">>>>,
      <<"U+217C", <<"U+216C">>>>, <<"U+217D", <<"U+216D">>>>, <<"U+217E", <<"U+216E">>>>,
      <<"U+217F", <<"U+216F">>>>, <<"U+2184", <<"U+2183">>>>, <<"U+24D0", <<"U+24B6">>>>,
      <<"U+24D1", <<"U+24B7">>>>, <<"U+24D2", <<"U+24B8">>>>, <<"U+24D3", <<"U+24B9">>>>,
      <<"U+24D4", <<"U+24BA">>>>, <<"U+24D5", <<"U+24BB">>>>, <<"U+24D6", <<"U+24BC">>>>,
      <<"U+24D7", <<"U+24BD">>>>, <<"U+24D8", <<"U+24BE">>>>, <<"U+24D9", <<"U+24BF">>>>,
      <<"U+24DA", <<"U+24C0">>>>, <<"U+24DB", <<"U+24C1">>>>, <<"U+24DC", <<"U+24C2">>>>,
      <<"U+24DD", <<"U+24C3">>>>, <<"U+24DE", <<"U+24C4">>>>, <<"U+24DF", <<"U+24C5">>>>,
      <<"U+24E0", <<"U+24C6">>>>, <<"U+24E1", <<"U+24C7">>>>, <<"U+24E2", <<"U+24C8">>>>,
      <<"U+24E3", <<"U+24C9">>>>, <<"U+24E4", <<"U+24CA">>>>, <<"U+24E5", <<"U+24CB">>>>,
      <<"U+24E6", <<"U+24CC">>>>, <<"U+24E7", <<"U+24CD">>>>, <<"U+24E8", <<"U+24CE">>>>,
      <<"U+24E9", <<"U+24CF">>>>, <<"U+2C30", <<"U+2C00">>>>, <<"U+2C31", <<"U+2C01">>>>,
      <<"U+2C32", <<"U+2C02">>>>, <<"U+2C33", <<"U+2C03">>>>, <<"U+2C34", <<"U+2C04">>>>,
      <<"U+2C35", <<"U+2C05">>>>, <<"U+2C36", <<"U+2C06">>>>, <<"U+2C37", <<"U+2C07">>>>,
      <<"U+2C38", <<"U+2C08">>>>, <<"U+2C39", <<"U+2C09">>>>, <<"U+2C3A", <<"U+2C0A">>>>,
      <<"U+2C3B", <<"U+2C0B">>>>, <<"U+2C3C", <<"U+2C0C">>>>, <<"U+2C3D", <<"U+2C0D">>>>,
      <<"U+2C3E", <<"U+2C0E">>>>, <<"U+2C3F", <<"U+2C0F">>>>, <<"U+2C40", <<"U+2C10">>>>,
      <<"U+2C41", <<"U+2C11">>>>, <<"U+2C42", <<"U+2C12">>>>, <<"U+2C43", <<"U+2C13">>>>,
      <<"U+2C44", <<"U+2C14">>>>, <<"U+2C45", <<"U+2C15">>>>, <<"U+2C46", <<"U+2C16">>>>,
      <<"U+2C47", <<"U+2C17">>>>, <<"U+2C48", <<"U+2C18">>>>, <<"U+2C49", <<"U+2C19">>>>,
      <<"U+2C4A", <<"U+2C1A">>>>, <<"U+2C4B", <<"U+2C1B">>>>, <<"U+2C4C", <<"U+2C1C">>>>,
      <<"U+2C4D", <<"U+2C1D">>>>, <<"U+2C4E", <<"U+2C1E">>>>, <<"U+2C4F", <<"U+2C1F">>>>,
      <<"U+2C50", <<"U+2C20">>>>, <<"U+2C51", <<"U+2C21">>>>, <<"U+2C52", <<"U+2C22">>>>,
      <<"U+2C53", <<"U+2C23">>>>, <<"U+2C54", <<"U+2C24">>>>, <<"U+2C55", <<"U+2C25">>>>,
      <<"U+2C56", <<"U+2C26">>>>, <<"U+2C57", <<"U+2C27">>>>, <<"U+2C58", <<"U+2C28">>>>,
      <<"U+2C59", <<"U+2C29">>>>, <<"U+2C5A", <<"U+2C2A">>>>, <<"U+2C5B", <<"U+2C2B">>>>,
      <<"U+2C5C", <<"U+2C2C">>>>, <<"U+2C5D", <<"U+2C2D">>>>, <<"U+2C5E", <<"U+2C2E">>>>,
      <<"U+2C5F", <<"U+2C2F">>>>, <<"U+2C61", <<"U+2C60">>>>, <<"U+2C65", <<"U+023A">>>>,
      <<"U+2C66", <<"U+023E">>>>, <<"U+2C68", <<"U+2C67">>>>, <<"U+2C6A", <<"U+2C69">>>>,
      <<"U+2C6C", <<"U+2C6B">>>>, <<"U+2C73", <<"U+2C72">>>>, <<"U+2C76", <<"U+2C75">>>>,
      <<"U+2C81", <<"U+2C80">>>>, <<"U+2C83", <<"U+2C82">>>>, <<"U+2C85", <<"U+2C84">>>>,
      <<"U+2C87", <<"U+2C86">>>>, <<"U+2C89", <<"U+2C88">>>>, <<"U+2C8B", <<"U+2C8A">>>>,
      <<"U+2C8D", <<"U+2C8C">>>>, <<"U+2C8F", <<"U+2C8E">>>>, <<"U+2C91", <<"U+2C90">>>>,
      <<"U+2C93", <<"U+2C92">>>>, <<"U+2C95", <<"U+2C94">>>>, <<"U+2C97", <<"U+2C96">>>>,
      <<"U+2C99", <<"U+2C98">>>>, <<"U+2C9B", <<"U+2C9A">>>>, <<"U+2C9D", <<"U+2C9C">>>>,
      <<"U+2C9F", <<"U+2C9E">>>>, <<"U+2CA1", <<"U+2CA0">>>>, <<"U+2CA3", <<"U+2CA2">>>>,
      <<"U+2CA5", <<"U+2CA4">>>>, <<"U+2CA7", <<"U+2CA6">>>>, <<"U+2CA9", <<"U+2CA8">>>>,
      <<"U+2CAB", <<"U+2CAA">>>>, <<"U+2CAD", <<"U+2CAC">>>>, <<"U+2CAF", <<"U+2CAE">>>>,
      <<"U+2CB1", <<"U+2CB0">>>>, <<"U+2CB3", <<"U+2CB2">>>>, <<"U+2CB5", <<"U+2CB4">>>>,
      <<"U+2CB7", <<"U+2CB6">>>>, <<"U+2CB9", <<"U+2CB8">>>>, <<"U+2CBB", <<"U+2CBA">>>>,
      <<"U+2CBD", <<"U+2CBC">>>>, <<"U+2CBF", <<"U+2CBE">>>>, <<"U+2CC1", <<"U+2CC0">>>>,
      <<"U+2CC3", <<"U+2CC2">>>>, <<"U+2CC5", <<"U+2CC4">>>>, <<"U+2CC7", <<"U+2CC6">>>>,
      <<"U+2CC9", <<"U+2CC8">>>>, <<"U+2CCB", <<"U+2CCA">>>>, <<"U+2CCD", <<"U+2CCC">>>>,
      <<"U+2CCF", <<"U+2CCE">>>>, <<"U+2CD1", <<"U+2CD0">>>>, <<"U+2CD3", <<"U+2CD2">>>>,
      <<"U+2CD5", <<"U+2CD4">>>>, <<"U+2CD7", <<"U+2CD6">>>>, <<"U+2CD9", <<"U+2CD8">>>>,
      <<"U+2CDB", <<"U+2CDA">>>>, <<"U+2CDD", <<"U+2CDC">>>>, <<"U+2CDF", <<"U+2CDE">>>>,
      <<"U+2CE1", <<"U+2CE0">>>>, <<"U+2CE3", <<"U+2CE2">>>>, <<"U+2CEC", <<"U+2CEB">>>>,
      <<"U+2CEE", <<"U+2CED">>>>, <<"U+2CF3", <<"U+2CF2">>>>, <<"U+2D00", <<"U+10A0">>>>,
      <<"U+2D01", <<"U+10A1">>>>, <<"U+2D02", <<"U+10A2">>>>, <<"U+2D03", <<"U+10A3">>>>,
      <<"U+2D04", <<"U+10A4">>>>, <<"U+2D05", <<"U+10A5">>>>, <<"U+2D06", <<"U+10A6">>>>,
      <<"U+2D07", <<"U+10A7">>>>, <<"U+2D08", <<"U+10A8">>>>, <<"U+2D09", <<"U+10A9">>>>,
      <<"U+2D0A", <<"U+10AA">>>>, <<"U+2D0B", <<"U+10AB">>>>, <<"U+2D0C", <<"U+10AC">>>>,
      <<"U+2D0D", <<"U+10AD">>>>, <<"U+2D0E", <<"U+10AE">>>>, <<"U+2D0F", <<"U+10AF">>>>,
      <<"U+2D10", <<"U+10B0">>>>, <<"U+2D11", <<"U+10B1">>>>, <<"U+2D12", <<"U+10B2">>>>,
      <<"U+2D13", <<"U+10B3">>>>, <<"U+2D14", <<"U+10B4">>>>, <<"U+2D15", <<"U+10B5">>>>,
      <<"U+2D16", <<"U+10B6">>>>, <<"U+2D17", <<"U+10B7">>>>, <<"U+2D18", <<"U+10B8">>>>,
      <<"U+2D19", <<"U+10B9">>>>, <<"U+2D1A", <<"U+10BA">>>>, <<"U+2D1B", <<"U+10BB">>>>,
      <<"U+2D1C", <<"U+10BC">>>>, <<"U+2D1D", <<"U+10BD">>>>, <<"U+2D1E", <<"U+10BE">>>>,
      <<"U+2D1F", <<"U+10BF">>>>, <<"U+2D20", <<"U+10C0">>>>, <<"U+2D21", <<"U+10C1">>>>,
      <<"U+2D22", <<"U+10C2">>>>, <<"U+2D23", <<"U+10C3">>>>, <<"U+2D24", <<"U+10C4">>>>,
      <<"U+2D25", <<"U+10C5">>>>, <<"U+2D27", <<"U+10C7">>>>, <<"U+2D2D", <<"U+10CD">>>>,
      <<"U+A641", <<"U+A640">>>>, <<"U+A643", <<"U+A642">>>>, <<"U+A645", <<"U+A644">>>>,
      <<"U+A647", <<"U+A646">>>>, <<"U+A649", <<"U+A648">>>>, <<"U+A64B", <<"U+A64A">>>>,
      <<"U+A64D", <<"U+A64C">>>>, <<"U+A64F", <<"U+A64E">>>>, <<"U+A651", <<"U+A650">>>>,
      <<"U+A653", <<"U+A652">>>>, <<"U+A655", <<"U+A654">>>>, <<"U+A657", <<"U+A656">>>>,
      <<"U+A659", <<"U+A658">>>>, <<"U+A65B", <<"U+A65A">>>>, <<"U+A65D", <<"U+A65C">>>>,
      <<"U+A65F", <<"U+A65E">>>>, <<"U+A661", <<"U+A660">>>>, <<"U+A663", <<"U+A662">>>>,
      <<"U+A665", <<"U+A664">>>>, <<"U+A667", <<"U+A666">>>>, <<"U+A669", <<"U+A668">>>>,
      <<"U+A66B", <<"U+A66A">>>>, <<"U+A66D", <<"U+A66C">>>>, <<"U+A681", <<"U+A680">>>>,
      <<"U+A683", <<"U+A682">>>>, <<"U+A685", <<"U+A684">>>>, <<"U+A687", <<"U+A686">>>>,
      <<"U+A689", <<"U+A688">>>>, <<"U+A68B", <<"U+A68A">>>>, <<"U+A68D", <<"U+A68C">>>>,
      <<"U+A68F", <<"U+A68E">>>>, <<"U+A691", <<"U+A690">>>>, <<"U+A693", <<"U+A692">>>>,
      <<"U+A695", <<"U+A694">>>>, <<"U+A697", <<"U+A696">>>>, <<"U+A699", <<"U+A698">>>>,
      <<"U+A69B", <<"U+A69A">>>>, <<"U+A723", <<"U+A722">>>>, <<"U+A725", <<"U+A724">>>>,
      <<"U+A727", <<"U+A726">>>>, <<"U+A729", <<"U+A728">>>>, <<"U+A72B", <<"U+A72A">>>>,
      <<"U+A72D", <<"U+A72C">>>>, <<"U+A72F", <<"U+A72E">>>>, <<"U+A733", <<"U+A732">>>>,
      <<"U+A735", <<"U+A734">>>>, <<"U+A737", <<"U+A736">>>>, <<"U+A739", <<"U+A738">>>>,
      <<"U+A73B", <<"U+A73A">>>>, <<"U+A73D", <<"U+A73C">>>>, <<"U+A73F", <<"U+A73E">>>>,
      <<"U+A741", <<"U+A740">>>>, <<"U+A743", <<"U+A742">>>>, <<"U+A745", <<"U+A744">>>>,
      <<"U+A747", <<"U+A746">>>>, <<"U+A749", <<"U+A748">>>>, <<"U+A74B", <<"U+A74A">>>>,
      <<"U+A74D", <<"U+A74C">>>>, <<"U+A74F", <<"U+A74E">>>>, <<"U+A751", <<"U+A750">>>>,
      <<"U+A753", <<"U+A752">>>>, <<"U+A755", <<"U+A754">>>>, <<"U+A757", <<"U+A756">>>>,
      <<"U+A759", <<"U+A758">>>>, <<"U+A75B", <<"U+A75A">>>>, <<"U+A75D", <<"U+A75C">>>>,
      <<"U+A75F", <<"U+A75E">>>>, <<"U+A761", <<"U+A760">>>>, <<"U+A763", <<"U+A762">>>>,
      <<"U+A765", <<"U+A764">>>>, <<"U+A767", <<"U+A766">>>>, <<"U+A769", <<"U+A768">>>>,
      <<"U+A76B", <<"U+A76A">>>>, <<"U+A76D", <<"U+A76C">>>>, <<"U+A76F", <<"U+A76E">>>>,
      <<"U+A77A", <<"U+A779">>>>, <<"U+A77C", <<"U+A77B">>>>, <<"U+A77F", <<"U+A77E">>>>,
      <<"U+A781", <<"U+A780">>>>, <<"U+A783", <<"U+A782">>>>, <<"U+A785", <<"U+A784">>>>,
      <<"U+A787", <<"U+A786">>>>, <<"U+A78C", <<"U+A78B">>>>, <<"U+A791", <<"U+A790">>>>,
      <<"U+A793", <<"U+A792">>>>, <<"U+A794", <<"U+A7C4">>>>, <<"U+A797", <<"U+A796">>>>,
      <<"U+A799", <<"U+A798">>>>, <<"U+A79B", <<"U+A79A">>>>, <<"U+A79D", <<"U+A79C">>>>,
      <<"U+A79F", <<"U+A79E">>>>, <<"U+A7A1", <<"U+A7A0">>>>, <<"U+A7A3", <<"U+A7A2">>>>,
      <<"U+A7A5", <<"U+A7A4">>>>, <<"U+A7A7", <<"U+A7A6">>>>, <<"U+A7A9", <<"U+A7A8">>>>,
      <<"U+A7B5", <<"U+A7B4">>>>, <<"U+A7B7", <<"U+A7B6">>>>, <<"U+A7B9", <<"U+A7B8">>>>,
      <<"U+A7BB", <<"U+A7BA">>>>, <<"U+A7BD", <<"U+A7BC">>>>, <<"U+A7BF", <<"U+A7BE">>>>,
      <<"U+A7C1", <<"U+A7C0">>>>, <<"U+A7C3", <<"U+A7C2">>>>, <<"U+A7C8", <<"U+A7C7">>>>,
      <<"U+A7CA", <<"U+A7C9">>>>, <<"U+A7CD", <<"U+A7CC">>>>, <<"U+A7CF", <<"U+A7CE">>>>,
      <<"U+A7D1", <<"U+A7D0">>>>, <<"U+A7D3", <<"U+A7D2">>>>, <<"U+A7D5", <<"U+A7D4">>>>,
      <<"U+A7D7", <<"U+A7D6">>>>, <<"U+A7D9", <<"U+A7D8">>>>, <<"U+A7DB", <<"U+A7DA">>>>,
      <<"U+A7F6", <<"U+A7F5">>>>, <<"U+AB53", <<"U+A7B3">>>>, <<"U+AB70", <<"U+13A0">>>>,
      <<"U+AB71", <<"U+13A1">>>>, <<"U+AB72", <<"U+13A2">>>>, <<"U+AB73", <<"U+13A3">>>>,
      <<"U+AB74", <<"U+13A4">>>>, <<"U+AB75", <<"U+13A5">>>>, <<"U+AB76", <<"U+13A6">>>>,
      <<"U+AB77", <<"U+13A7">>>>, <<"U+AB78", <<"U+13A8">>>>, <<"U+AB79", <<"U+13A9">>>>,
      <<"U+AB7A", <<"U+13AA">>>>, <<"U+AB7B", <<"U+13AB">>>>, <<"U+AB7C", <<"U+13AC">>>>,
      <<"U+AB7D", <<"U+13AD">>>>, <<"U+AB7E", <<"U+13AE">>>>, <<"U+AB7F", <<"U+13AF">>>>,
      <<"U+AB80", <<"U+13B0">>>>, <<"U+AB81", <<"U+13B1">>>>, <<"U+AB82", <<"U+13B2">>>>,
      <<"U+AB83", <<"U+13B3">>>>, <<"U+AB84", <<"U+13B4">>>>, <<"U+AB85", <<"U+13B5">>>>,
      <<"U+AB86", <<"U+13B6">>>>, <<"U+AB87", <<"U+13B7">>>>, <<"U+AB88", <<"U+13B8">>>>,
      <<"U+AB89", <<"U+13B9">>>>, <<"U+AB8A", <<"U+13BA">>>>, <<"U+AB8B", <<"U+13BB">>>>,
      <<"U+AB8C", <<"U+13BC">>>>, <<"U+AB8D", <<"U+13BD">>>>, <<"U+AB8E", <<"U+13BE">>>>,
      <<"U+AB8F", <<"U+13BF">>>>, <<"U+AB90", <<"U+13C0">>>>, <<"U+AB91", <<"U+13C1">>>>,
      <<"U+AB92", <<"U+13C2">>>>, <<"U+AB93", <<"U+13C3">>>>, <<"U+AB94", <<"U+13C4">>>>,
      <<"U+AB95", <<"U+13C5">>>>, <<"U+AB96", <<"U+13C6">>>>, <<"U+AB97", <<"U+13C7">>>>,
      <<"U+AB98", <<"U+13C8">>>>, <<"U+AB99", <<"U+13C9">>>>, <<"U+AB9A", <<"U+13CA">>>>,
      <<"U+AB9B", <<"U+13CB">>>>, <<"U+AB9C", <<"U+13CC">>>>, <<"U+AB9D", <<"U+13CD">>>>,
      <<"U+AB9E", <<"U+13CE">>>>, <<"U+AB9F", <<"U+13CF">>>>, <<"U+ABA0", <<"U+13D0">>>>,
      <<"U+ABA1", <<"U+13D1">>>>, <<"U+ABA2", <<"U+13D2">>>>, <<"U+ABA3", <<"U+13D3">>>>,
      <<"U+ABA4", <<"U+13D4">>>>, <<"U+ABA5", <<"U+13D5">>>>, <<"U+ABA6", <<"U+13D6">>>>,
      <<"U+ABA7", <<"U+13D7">>>>, <<"U+ABA8", <<"U+13D8">>>>, <<"U+ABA9", <<"U+13D9">>>>,
      <<"U+ABAA", <<"U+13DA">>>>, <<"U+ABAB", <<"U+13DB">>>>, <<"U+ABAC", <<"U+13DC">>>>,
      <<"U+ABAD", <<"U+13DD">>>>, <<"U+ABAE", <<"U+13DE">>>>, <<"U+ABAF", <<"U+13DF">>>>,
      <<"U+ABB0", <<"U+13E0">>>>, <<"U+ABB1", <<"U+13E1">>>>, <<"U+ABB2", <<"U+13E2">>>>,
      <<"U+ABB3", <<"U+13E3">>>>, <<"U+ABB4", <<"U+13E4">>>>, <<"U+ABB5", <<"U+13E5">>>>,
      <<"U+ABB6", <<"U+13E6">>>>, <<"U+ABB7", <<"U+13E7">>>>, <<"U+ABB8", <<"U+13E8">>>>,
      <<"U+ABB9", <<"U+13E9">>>>, <<"U+ABBA", <<"U+13EA">>>>, <<"U+ABBB", <<"U+13EB">>>>,
      <<"U+ABBC", <<"U+13EC">>>>, <<"U+ABBD", <<"U+13ED">>>>, <<"U+ABBE", <<"U+13EE">>>>,
      <<"U+ABBF", <<"U+13EF">>>>, <<"U+FB00", <<"F", "F">>>>, <<"U+FB01", <<"F", "I">>>>,
      <<"U+FB02", <<"F", "L">>>>, <<"U+FB03", <<"F", "F", "I">>>>,
      <<"U+FB04", <<"F", "F", "L">>>>, <<"U+FB05", <<"S", "T">>>>, <<"U+FB06", <<"S", "T">>>>,
      <<"U+FB13", <<"U+0544", "U+0546">>>>, <<"U+FB14", <<"U+0544", "U+0535">>>>,
      <<"U+FB15", <<"U+0544", "U+053B">>>>, <<"U+FB16", <<"U+054E", "U+0546">>>>,
      <<"U+FB17", <<"U+0544", "U+053D">>>>, <<"U+FF41", <<"U+FF21">>>>,
      <<"U+FF42", <<"U+FF22">>>>, <<"U+FF43", <<"U+FF23">>>>, <<"U+FF44", <<"U+FF24">>>>,
      <<"U+FF45", <<"U+FF25">>>>, <<"U+FF46", <<"U+FF26">>>>, <<"U+FF47", <<"U+FF27">>>>,
      <<"U+FF48", <<"U+FF28">>>>, <<"U+FF49", <<"U+FF29">>>>, <<"U+FF4A", <<"U+FF2A">>>>,
      <<"U+FF4B", <<"U+FF2B">>>>, <<"U+FF4C", <<"U+FF2C">>>>, <<"U+FF4D", <<"U+FF2D">>>>,
      <<"U+FF4E", <<"U+FF2E">>>>, <<"U+FF4F", <<"U+FF2F">>>>, <<"U+FF50", <<"U+FF30">>>>,
      <<"U+FF51", <<"U+FF31">>>>, <<"U+FF52", <<"U+FF32">>>>, <<"U+FF53", <<"U+FF33">>>>,
      <<"U+FF54", <<"U+FF34">>>>, <<"U+FF55", <<"U+FF35">>>>, <<"U+FF56", <<"U+FF36">>>>,
      <<"U+FF57", <<"U+FF37">>>>, <<"U+FF58", <<"U+FF38">>>>, <<"U+FF59", <<"U+FF39">>>>,
      <<"U+FF5A", <<"U+FF3A">>>> }

\* the letters above U+FFFF it changes: the surrogate pair of the letter,
\* then the surrogate pair of its upper case
UpperCasePairTable ==
    {
      <<"U+D801", "U+DC28", "U+D801", "U+DC00">>, <<"U+D801", "U+DC29", "U+D801", "U+DC01">>,
      <<"U+D801", "U+DC2A", "U+D801", "U+DC02">>, <<"U+D801", "U+DC2B", "U+D801", "U+DC03">>,
      <<"U+D801", "U+DC2C", "U+D801", "U+DC04">>, <<"U+D801", "U+DC2D", "U+D801", "U+DC05">>,
      <<"U+D801", "U+DC2E", "U+D801", "U+DC06">>, <<"U+D801", "U+DC2F", "U+D801", "U+DC07">>,
      <<"U+D801", "U+DC30", "U+D801", "U+DC08">>, <<"U+D801", "U+DC31", "U+D801", "U+DC09">>,
      <<"U+D801", "U+DC32", "U+D801", "U+DC0A">>, <<"U+D801", "U+DC33", "U+D801", "U+DC0B">>,
      <<"U+D801", "U+DC34", "U+D801", "U+DC0C">>, <<"U+D801", "U+DC35", "U+D801", "U+DC0D">>,
      <<"U+D801", "U+DC36", "U+D801", "U+DC0E">>, <<"U+D801", "U+DC37", "U+D801", "U+DC0F">>,
      <<"U+D801", "U+DC38", "U+D801", "U+DC10">>, <<"U+D801", "U+DC39", "U+D801", "U+DC11">>,
      <<"U+D801", "U+DC3A", "U+D801", "U+DC12">>, <<"U+D801", "U+DC3B", "U+D801", "U+DC13">>,
      <<"U+D801", "U+DC3C", "U+D801", "U+DC14">>, <<"U+D801", "U+DC3D", "U+D801", "U+DC15">>,
      <<"U+D801", "U+DC3E", "U+D801", "U+DC16">>, <<"U+D801", "U+DC3F", "U+D801", "U+DC17">>,
      <<"U+D801", "U+DC40", "U+D801", "U+DC18">>, <<"U+D801", "U+DC41", "U+D801", "U+DC19">>,
      <<"U+D801", "U+DC42", "U+D801", "U+DC1A">>, <<"U+D801", "U+DC43", "U+D801", "U+DC1B">>,
      <<"U+D801", "U+DC44", "U+D801", "U+DC1C">>, <<"U+D801", "U+DC45", "U+D801", "U+DC1D">>,
      <<"U+D801", "U+DC46", "U+D801", "U+DC1E">>, <<"U+D801", "U+DC47", "U+D801", "U+DC1F">>,
      <<"U+D801", "U+DC48", "U+D801", "U+DC20">>, <<"U+D801", "U+DC49", "U+D801", "U+DC21">>,
      <<"U+D801", "U+DC4A", "U+D801", "U+DC22">>, <<"U+D801", "U+DC4B", "U+D801", "U+DC23">>,
      <<"U+D801", "U+DC4C", "U+D801", "U+DC24">>, <<"U+D801", "U+DC4D", "U+D801", "U+DC25">>,
      <<"U+D801", "U+DC4E", "U+D801", "U+DC26">>, <<"U+D801", "U+DC4F", "U+D801", "U+DC27">>,
      <<"U+D801", "U+DCD8", "U+D801", "U+DCB0">>, <<"U+D801", "U+DCD9", "U+D801", "U+DCB1">>,
      <<"U+D801", "U+DCDA", "U+D801", "U+DCB2">>, <<"U+D801", "U+DCDB", "U+D801", "U+DCB3">>,
      <<"U+D801", "U+DCDC", "U+D801", "U+DCB4">>, <<"U+D801", "U+DCDD", "U+D801", "U+DCB5">>,
      <<"U+D801", "U+DCDE", "U+D801", "U+DCB6">>, <<"U+D801", "U+DCDF", "U+D801", "U+DCB7">>,
      <<"U+D801", "U+DCE0", "U+D801", "U+DCB8">>, <<"U+D801", "U+DCE1", "U+D801", "U+DCB9">>,
      <<"U+D801", "U+DCE2", "U+D801", "U+DCBA">>, <<"U+D801", "U+DCE3", "U+D801", "U+DCBB">>,
      <<"U+D801", "U+DCE4", "U+D801", "U+DCBC">>, <<"U+D801", "U+DCE5", "U+D801", "U+DCBD">>,
      <<"U+D801", "U+DCE6", "U+D801", "U+DCBE">>, <<"U+D801", "U+DCE7", "U+D801", "U+DCBF">>,
      <<"U+D801", "U+DCE8", "U+D801", "U+DCC0">>, <<"U+D801", "U+DCE9", "U+D801", "U+DCC1">>,
      <<"U+D801", "U+DCEA", "U+D801", "U+DCC2">>, <<"U+D801", "U+DCEB", "U+D801", "U+DCC3">>,
      <<"U+D801", "U+DCEC", "U+D801", "U+DCC4">>, <<"U+D801", "U+DCED", "U+D801", "U+DCC5">>,
      <<"U+D801", "U+DCEE", "U+D801", "U+DCC6">>, <<"U+D801", "U+DCEF", "U+D801", "U+DCC7">>,
      <<"U+D801", "U+DCF0", "U+D801", "U+DCC8">>, <<"U+D801", "U+DCF1", "U+D801", "U+DCC9">>,
      <<"U+D801", "U+DCF2", "U+D801", "U+DCCA">>, <<"U+D801", "U+DCF3", "U+D801", "U+DCCB">>,
      <<"U+D801", "U+DCF4", "U+D801", "U+DCCC">>, <<"U+D801", "U+DCF5", "U+D801", "U+DCCD">>,
      <<"U+D801", "U+DCF6", "U+D801", "U+DCCE">>, <<"U+D801", "U+DCF7", "U+D801", "U+DCCF">>,
      <<"U+D801", "U+DCF8", "U+D801", "U+DCD0">>, <<"U+D801", "U+DCF9", "U+D801", "U+DCD1">>,
      <<"U+D801", "U+DCFA", "U+D801", "U+DCD2">>, <<"U+D801", "U+DCFB", "U+D801", "U+DCD3">>,
      <<"U+D801", "U+DD97", "U+D801", "U+DD70">>, <<"U+D801", "U+DD98", "U+D801", "U+DD71">>,
      <<"U+D801", "U+DD99", "U+D801", "U+DD72">>, <<"U+D801", "U+DD9A", "U+D801", "U+DD73">>,
      <<"U+D801", "U+DD9B", "U+D801", "U+DD74">>, <<"U+D801", "U+DD9C", "U+D801", "U+DD75">>,
      <<"U+D801", "U+DD9D", "U+D801", "U+DD76">>, <<"U+D801", "U+DD9E", "U+D801", "U+DD77">>,
      <<"U+D801", "U+DD9F", "U+D801", "U+DD78">>, <<"U+D801", "U+DDA0", "U+D801", "U+DD79">>,
      <<"U+D801", "U+DDA1", "U+D801", "U+DD7A">>, <<"U+D801", "U+DDA3", "U+D801", "U+DD7C">>,
      <<"U+D801", "U+DDA4", "U+D801", "U+DD7D">>, <<"U+D801", "U+DDA5", "U+D801", "U+DD7E">>,
      <<"U+D801", "U+DDA6", "U+D801", "U+DD7F">>, <<"U+D801", "U+DDA7", "U+D801", "U+DD80">>,
      <<"U+D801", "U+DDA8", "U+D801", "U+DD81">>, <<"U+D801", "U+DDA9", "U+D801", "U+DD82">>,
      <<"U+D801", "U+DDAA", "U+D801", "U+DD83">>, <<"U+D801", "U+DDAB", "U+D801", "U+DD84">>,
      <<"U+D801", "U+DDAC", "U+D801", "U+DD85">>, <<"U+D801", "U+DDAD", "U+D801", "U+DD86">>,
      <<"U+D801", "U+DDAE", "U+D801", "U+DD87">>, <<"U+D801", "U+DDAF", "U+D801", "U+DD88">>,
      <<"U+D801", "U+DDB0", "U+D801", "U+DD89">>, <<"U+D801", "U+DDB1", "U+D801", "U+DD8A">>,
      <<"U+D801", "U+DDB3", "U+D801", "U+DD8C">>, <<"U+D801", "U+DDB4", "U+D801", "U+DD8D">>,
      <<"U+D801", "U+DDB5", "U+D801", "U+DD8E">>, <<"U+D801", "U+DDB6", "U+D801", "U+DD8F">>,
      <<"U+D801", "U+DDB7", "U+D801", "U+DD90">>, <<"U+D801", "U+DDB8", "U+D801", "U+DD91">>,
      <<"U+D801", "U+DDB9", "U+D801", "U+DD92">>, <<"U+D801", "U+DDBB", "U+D801", "U+DD94">>,
      <<"U+D801", "U+DDBC", "U+D801", "U+DD95">>, <<"U+D803", "U+DCC0", "U+D803", "U+DC80">>,
      <<"U+D803", "U+DCC1", "U+D803", "U+DC81">>, <<"U+D803", "U+DCC2", "U+D803", "U+DC82">>,
      <<"U+D803", "U+DCC3", "U+D803", "U+DC83">>, <<"U+D803", "U+DCC4", "U+D803", "U+DC84">>,
      <<"U+D803", "U+DCC5", "U+D803", "U+DC85">>, <<"U+D803", "U+DCC6", "U+D803", "U+DC86">>,
      <<"U+D803", "U+DCC7", "U+D803", "U+DC87">>, <<"U+D803", "U+DCC8", "U+D803", "U+DC88">>,
      <<"U+D803", "U+DCC9", "U+D803", "U+DC89">>, <<"U+D803", "U+DCCA", "U+D803", "U+DC8A">>,
      <<"U+D803", "U+DCCB", "U+D803", "U+DC8B">>, <<"U+D803", "U+DCCC", "U+D803", "U+DC8C">>,
      <<"U+D803", "U+DCCD", "U+D803", "U+DC8D">>, <<"U+D803", "U+DCCE", "U+D803", "U+DC8E">>,
      <<"U+D803", "U+DCCF", "U+D803", "U+DC8F">>, <<"U+D803", "U+DCD0", "U+D803", "U+DC90">>,
      <<"U+D803", "U+DCD1", "U+D803", "U+DC91">>, <<"U+D803", "U+DCD2", "U+D803", "U+DC92">>,
      <<"U+D803", "U+DCD3", "U+D803", "U+DC93">>, <<"U+D803", "U+DCD4", "U+D803", "U+DC94">>,
      <<"U+D803", "U+DCD5", "U+D803", "U+DC95">>, <<"U+D803", "U+DCD6", "U+D803", "U+DC96">>,
      <<"U+D803", "U+DCD7", "U+D803", "U+DC97">>, <<"U+D803", "U+DCD8", "U+D803", "U+DC98">>,
      <<"U+D803", "U+DCD9", "U+D803", "U+DC99">>, <<"U+D803", "U+DCDA", "U+D803", "U+DC9A">>,
      <<"U+D803", "U+DCDB", "U+D803", "U+DC9B">>, <<"U+D803", "U+DCDC", "U+D803", "U+DC9C">>,
      <<"U+D803", "U+DCDD", "U+D803", "U+DC9D">>, <<"U+D803", "U+DCDE", "U+D803", "U+DC9E">>,
      <<"U+D803", "U+DCDF", "U+D803", "U+DC9F">>, <<"U+D803", "U+DCE0", "U+D803", "U+DCA0">>,
      <<"U+D803", "U+DCE1", "U+D803", "U+DCA1">>, <<"U+D803", "U+DCE2", "U+D803", "U+DCA2">>,
      <<"U+D803", "U+DCE3", "U+D803", "U+DCA3">>, <<"U+D803", "U+DCE4", "U+D803", "U+DCA4">>,
      <<"U+D803", "U+DCE5", "U+D803", "U+DCA5">>, <<"U+D803", "U+DCE6", "U+D803", "U+DCA6">>,
      <<"U+D803", "U+DCE7", "U+D803", "U+DCA7">>, <<"U+D803", "U+DCE8", "U+D803", "U+DCA8">>,
      <<"U+D803", "U+DCE9", "U+D803", "U+DCA9">>, <<"U+D803", "U+DCEA", "U+D803", "U+DCAA">>,
      <<"U+D803", "U+DCEB", "U+D803", "U+DCAB">>, <<"U+D803", "U+DCEC", "U+D803", "U+DCAC">>,
      <<"U+D803", "U+DCED", "U+D803", "U+DCAD">>, <<"U+D803", "U+DCEE", "U+D803", "U+DCAE">>,
      <<"U+D803", "U+DCEF", "U+D803", "U+DCAF">>, <<"U+D803", "U+DCF0", "U+D803", "U+DCB0">>,
      <<"U+D803", "U+DCF1", "U+D803", "U+DCB1">>, <<"U+D803", "U+DCF2", "U+D803", "U+DCB2">>,
      <<"U+D803", "U+DD70", "U+D803", "U+DD50">>, <<"U+D803", "U+DD71", "U+D803", "U+DD51">>,
      <<"U+D803", "U+DD72", "U+D803", "U+DD52">>, <<"U+D803", "U+DD73", "U+D803", "U+DD53">>,
      <<"U+D803", "U+DD74", "U+D803", "U+DD54">>, <<"U+D803", "U+DD75", "U+D803", "U+DD55">>,
      <<"U+D803", "U+DD76", "U+D803", "U+DD56">>, <<"U+D803", "U+DD77", "U+D803", "U+DD57">>,
      <<"U+D803", "U+DD78", "U+D803", "U+DD58">>, <<"U+D803", "U+DD79", "U+D803", "U+DD59">>,
      <<"U+D803", "U+DD7A", "U+D803", "U+DD5A">>, <<"U+D803", "U+DD7B", "U+D803", "U+DD5B">>,
      <<"U+D803", "U+DD7C", "U+D803", "U+DD5C">>, <<"U+D803", "U+DD7D", "U+D803", "U+DD5D">>,
      <<"U+D803", "U+DD7E", "U+D803", "U+DD5E">>, <<"U+D803", "U+DD7F", "U+D803", "U+DD5F">>,
      <<"U+D803", "U+DD80", "U+D803", "U+DD60">>, <<"U+D803", "U+DD81", "U+D803", "U+DD61">>,
      <<"U+D803", "U+DD82", "U+D803", "U+DD62">>, <<"U+D803", "U+DD83", "U+D803", "U+DD63">>,
      <<"U+D803", "U+DD84", "U+D803", "U+DD64">>, <<"U+D803", "U+DD85", "U+D803", "U+DD65">>,
      <<"U+D806", "U+DCC0", "U+D806", "U+DCA0">>, <<"U+D806", "U+DCC1", "U+D806", "U+DCA1">>,
      <<"U+D806", "U+DCC2", "U+D806", "U+DCA2">>, <<"U+D806", "U+DCC3", "U+D806", "U+DCA3">>,
      <<"U+D806", "U+DCC4", "U+D806", "U+DCA4">>, <<"U+D806", "U+DCC5", "U+D806", "U+DCA5">>,
      <<"U+D806", "U+DCC6", "U+D806", "U+DCA6">>, <<"U+D806", "U+DCC7", "U+D806", "U+DCA7">>,
      <<"U+D806", "U+DCC8", "U+D806", "U+DCA8">>, <<"U+D806", "U+DCC9", "U+D806", "U+DCA9">>,
      <<"U+D806", "U+DCCA", "U+D806", "U+DCAA">>, <<"U+D806", "U+DCCB", "U+D806", "U+DCAB">>,
      <<"U+D806", "U+DCCC", "U+D806", "U+DCAC">>, <<"U+D806", "U+DCCD", "U+D806", "U+DCAD">>,
      <<"U+D806", "U+DCCE", "U+D806", "U+DCAE">>, <<"U+D806", "U+DCCF", "U+D806", "U+DCAF">>,
      <<"U+D806", "U+DCD0", "U+D806", "U+DCB0">>, <<"U+D806", "U+DCD1", "U+D806", "U+DCB1">>,
      <<"U+D806", "U+DCD2", "U+D806", "U+DCB2">>, <<"U+D806", "U+DCD3", "U+D806", "U+DCB3">>,
      <<"U+D806", "U+DCD4", "U+D806", "U+DCB4">>, <<"U+D806", "U+DCD5", "U+D806", "U+DCB5">>,
      <<"U+D806", "U+DCD6", "U+D806", "U+DCB6">>, <<"U+D806", "U+DCD7", "U+D806", "U+DCB7">>,
      <<"U+D806", "U+DCD8", "U+D806", "U+DCB8">>, <<"U+D806", "U+DCD9", "U+D806", "U+DCB9">>,
      <<"U+D806", "U+DCDA", "U+D806", "U+DCBA">>, <<"U+D806", "U+DCDB", "U+D806", "U+DCBB">>,
      <<"U+D806", "U+DCDC", "U+D806", "U+DCBC">>, <<"U+D806", "U+DCDD", "U+D806", "U+DCBD">>,
      <<"U+D806", "U+DCDE", "U+D806", "U+DCBE">>, <<"U+D806", "U+DCDF", "U+D806", "U+DCBF">>,
      <<"U+D81B", "U+DE60", "U+D81B", "U+DE40">>, <<"U+D81B", "U+DE61", "U+D81B", "U+DE41">>,
      <<"U+D81B", "U+DE62", "U+D81B", "U+DE42">>, <<"U+D81B", "U+DE63", "U+D81B", "U+DE43">>,
      <<"U+D81B", "U+DE64", "U+D81B", "U+DE44">>, <<"U+D81B", "U+DE65", "U+D81B", "U+DE45">>,
      <<"U+D81B", "U+DE66", "U+D81B", "U+DE46">>, <<"U+D81B", "U+DE67", "U+D81B", "U+DE47">>,
      <<"U+D81B", "U+DE68", "U+D81B", "U+DE48">>, <<"U+D81B", "U+DE69", "U+D81B", "U+DE49">>,
      <<"U+D81B", "U+DE6A", "U+D81B", "U+DE4A">>, <<"U+D81B", "U+DE6B", "U+D81B", "U+DE4B">>,
      <<"U+D81B", "U+DE6C", "U+D81B", "U+DE4C">>, <<"U+D81B", "U+DE6D", "U+D81B", "U+DE4D">>,
      <<"U+D81B", "U+DE6E", "U+D81B", "U+DE4E">>, <<"U+D81B", "U+DE6F", "U+D81B", "U+DE4F">>,
      <<"U+D81B", "U+DE70", "U+D81B", "U+DE50">>, <<"U+D81B", "U+DE71", "U+D81B", "U+DE51">>,
      <<"U+D81B", "U+DE72", "U+D81B", "U+DE52">>, <<"U+D81B", "U+DE73", "U+D81B", "U+DE53">>,
      <<"U+D81B", "U+DE74", "U+D81B", "U+DE54">>, <<"U+D81B", "U+DE75", "U+D81B", "U+DE55">>,
      <<"U+D81B", "U+DE76", "U+D81B", "U+DE56">>, <<"U+D81B", "U+DE77", "U+D81B", "U+DE57">>,
      <<"U+D81B", "U+DE78", "U+D81B", "U+DE58">>, <<"U+D81B", "U+DE79", "U+D81B", "U+DE59">>,
      <<"U+D81B", "U+DE7A", "U+D81B", "U+DE5A">>, <<"U+D81B", "U+DE7B", "U+D81B", "U+DE5B">>,
      <<"U+D81B", "U+DE7C", "U+D81B", "U+DE5C">>, <<"U+D81B", "U+DE7D", "U+D81B", "U+DE5D">>,
      <<"U+D81B", "U+DE7E", "U+D81B", "U+DE5E">>, <<"U+D81B", "U+DE7F", "U+D81B", "U+DE5F">>,
      <<"U+D81B", "U+DEBB", "U+D81B", "U+DEA0">>, <<"U+D81B", "U+DEBC", "U+D81B", "U+DEA1">>,
      <<"U+D81B", "U+DEBD", "U+D81B", "U+DEA2">>, <<"U+D81B", "U+DEBE", "U+D81B", "U+DEA3">>,
      <<"U+D81B", "U+DEBF", "U+D81B", "U+DEA4">>, <<"U+D81B", "U+DEC0", "U+D81B", "U+DEA5">>,
      <<"U+D81B", "U+DEC1", "U+D81B", "U+DEA6">>, <<"U+D81B", "U+DEC2", "U+D81B", "U+DEA7">>,
      <<"U+D81B", "U+DEC3", "U+D81B", "U+DEA8">>, <<"U+D81B", "U+DEC4", "U+D81B", "U+DEA9">>,
      <<"U+D81B", "U+DEC5", "U+D81B", "U+DEAA">>, <<"U+D81B", "U+DEC6", "U+D81B", "U+DEAB">>,
      <<"U+D81B", "U+DEC7", "U+D81B", "U+DEAC">>, <<"U+D81B", "U+DEC8", "U+D81B", "U+DEAD">>,
      <<"U+D81B", "U+DEC9", "U+D81B", "U+DEAE">>, <<"U+D81B", "U+DECA", "U+D81B", "U+DEAF">>,
      <<"U+D81B", "U+DECB", "U+D81B", "U+DEB0">>, <<"U+D81B", "U+DECC", "U+D81B", "U+DEB1">>,
      <<"U+D81B", "U+DECD", "U+D81B", "U+DEB2">>, <<"U+D81B", "U+DECE", "U+D81B", "U+DEB3">>,
      <<"U+D81B", "U+DECF", "U+D81B", "U+DEB4">>, <<"U+D81B", "U+DED0", "U+D81B", "U+DEB5">>,
      <<"U+D81B", "U+DED1", "U+D81B", "U+DEB6">>, <<"U+D81B", "U+DED2", "U+D81B", "U+DEB7">>,
      <<"U+D81B", "U+DED3", "U+D81B", "U+DEB8">>, <<"U+D83A", "U+DD22", "U+D83A", "U+DD00">>,
      <<"U+D83A", "U+DD23", "U+D83A", "U+DD01">>, <<"U+D83A", "U+DD24", "U+D83A", "U+DD02">>,
      <<"U+D83A", "U+DD25", "U+D83A", "U+DD03">>, <<"U+D83A", "U+DD26", "U+D83A", "U+DD04">>,
      <<"U+D83A", "U+DD27", "U+D83A", "U+DD05">>, <<"U+D83A", "U+DD28", "U+D83A", "U+DD06">>,
      <<"U+D83A", "U+DD29", "U+D83A", "U+DD07">>, <<"U+D83A", "U+DD2A", "U+D83A", "U+DD08">>,
      <<"U+D83A", "U+DD2B", "U+D83A", "U+DD09">>, <<"U+D83A", "U+DD2C", "U+D83A", "U+DD0A">>,
      <<"U+D83A", "U+DD2D", "U+D83A", "U+DD0B">>, <<"U+D83A", "U+DD2E", "U+D83A", "U+DD0C">>,
      <<"U+D83A", "U+DD2F", "U+D83A", "U+DD0D">>, <<"U+D83A", "U+DD30", "U+D83A", "U+DD0E">>,
      <<"U+D83A", "U+DD31", "U+D83A", "U+DD0F">>, <<"U+D83A", "U+DD32", "U+D83A", "U+DD10">>,
      <<"U+D83A", "U+DD33", "U+D83A", "U+DD11">>, <<"U+D83A", "U+DD34", "U+D83A", "U+DD12">>,
      <<"U+D83A", "U+DD35", "U+D83A", "U+DD13">>, <<"U+D83A", "U+DD36", "U+D83A", "U+DD14">>,
      <<"U+D83A", "U+DD37", "U+D83A", "U+DD15">>, <<"U+D83A", "U+DD38", "U+D83A", "U+DD16">>,
      <<"U+D83A", "U+DD39", "U+D83A", "U+DD17">>, <<"U+D83A", "U+DD3A", "U+D83A", "U+DD18">>,
      <<"U+D83A", "U+DD3B", "U+D83A", "U+DD19">>, <<"U+D83A", "U+DD3C", "U+D83A", "U+DD1A">>,
      <<"U+D83A", "U+DD3D", "U+D83A", "U+DD1B">>, <<"U+D83A", "U+DD3E", "U+D83A", "U+DD1C">>,
      <<"U+D83A", "U+DD3F", "U+D83A", "U+DD1D">>, <<"U+D83A", "U+DD40", "U+D83A", "U+DD1E">>,
      <<"U+D83A", "U+DD41", "U+D83A", "U+DD1F">>, <<"U+D83A", "U+DD42", "U+D83A", "U+DD20">>,
      <<"U+D83A", "U+DD43", "U+D83A", "U+DD21">> }

UpperCaseOf == [c \in {p[1] : p \in UpperCaseTable} |->
                  (CHOOSE p \in UpperCaseTable : p[1] = c)[2]]

\* upper-casing of one code unit
toUpperChar(c) == IF c \in DOMAIN UpperCaseOf THEN UpperCaseOf[c] ELSE <<c>>

\* upper-casing of a string, code point by code point
RECURSIVE toUpperCase(_)
toUpperCase(s) ==
    IF s = <<>> THEN <<>>
    ELSE IF Len(s) >= 2 /\ \E p \in UpperCasePairTable : p[1] = s[1] /\ p[2] = s[2]
    THEN LET p == CHOOSE q \in UpperCasePairTable : q[1] = s[1] /\ q[2] = s[2]
         IN  <<p[3], p[4]>> \o toUpperCase(SubSeq(s, 3, Len(s)))
    ELSE toUpperChar(Head(s)) \o toUpperCase(Tail(s))

-----------------------------------------------------------------------------
(* Field mappers of the conversion script (empty sentinel: '') *)

\* mutant: the ASCII hyphen placeholder is not recognised
cleanText_noHyphen(text) ==
    IF ~Truthy(text) \/ text = Str(<<EmDash>>) \/ trim(text.v) = <<>>
    THEN Str(<<>>)
    ELSE Str(trim(text.v))

cleanText(text) ==
    IF ~Truthy(text) \/ text = Str(<<EmDash>>) \/ text = Str(<<Hyphen>>)
       \/ trim(text.v) = <<>>
    THEN Str(<<>>)
    ELSE Str(trim(text.v))

\* mutant: the code is matched case-sensitively
mapVoice_caseSensitive(pada) ==
    CASE pada = Str(<<"P">>) -> Str(Chars("parasmaipada"))
      [] pada = Str(<<"A">>) -> Str(Chars("atmanepada"))
      [] pada = Str(<<"U">>) -> Str(Chars("ubhayapada"))
      [] OTHER -> Str(<<>>)

mapVoice(pada) ==
    LET padaUpper == IF pada = Undefined THEN Undefined
                     ELSE Str(toUpperCase(pada.v))
    IN  CASE padaUpper = Str(<<"P">>) -> Str(Chars("parasmaipada"))
          [] padaUpper = Str(<<"A">>) -> Str(Chars("atmanepada"))
          [] padaUpper = Str(<<"U">>) -> Str(Chars("ubhayapada"))
          [] OTHER -> Str(<<>>)

mapGender(linga) ==
    CASE linga = Str(<<"m">>) -> Str(Chars("masculine"))
      [] linga = Str(<<"f">>) -> Str(Chars("feminine"))
      [] linga = Str(<<"n">>) -> Str(Chars("neuter"))
      [] OTHER -> Str(<<>>)

determineSubtype(linga) ==
    CASE linga = Str(<<"a">>) -> Str(Chars("adjective"))
      [] linga = Str(<<"p">>) -> Str(Chars("pronoun"))
      [] linga \in {Str(<<"m">>), Str(<<"f">>), Str(<<"n">>)} -> Str(Chars("noun"))
      [] OTHER -> Str(<<>>)

(* Field mappers of the import migration (empty sentinel: undefined) *)

cleanTextMig(text) ==
    IF ~Truthy(text) \/ text = Str(<<EmDash>>) \/ text = Str(<<Hyphen>>)
       \/ trim(text.v) = <<>>
    THEN Undefined
    ELSE Str(trim(text.v))

mapVoiceMig(pada) ==
    LET padaUpper == IF pada = Undefined THEN Undefined
                     ELSE Str(toUpperCase(pada.v))
    IN  CASE padaUpper = Str(<<"P">>) -> Str(Chars("parasmaipada"))
          [] padaUpper = Str(<<"A">>) -> Str(Chars("atmanepada"))
          [] padaUpper = Str(<<"U">>) -> Str(Chars("ubhayapada"))
          [] OTHER -> Undefined

-----------------------------------------------------------------------------
(* CSV parser (the same text in the conversion script and the migration) *)

\* loop state of parseLine before its first iteration; i is 1-based here
parseLineStart == [i |-> 1, current |-> <<>>, inQuotes |-> FALSE, values |-> <<>>]

\* mutant: a doubled quote is treated as escaped outside quotes as well
parseLineStep_escapeAnywhere(ln, st) ==
    LET char == ln[st.i]
        nextChar == IF st.i + 1 <= Len(ln) THEN ln[st.i + 1] ELSE "undefined"
    IN  IF char = DQuote
        THEN IF nextChar = DQuote
             THEN [st EXCEPT !.current = Append(@, DQuote), !.i = @ + 2]
             ELSE [st EXCEPT !.inQuotes = ~@, !.i = @ + 1]
        ELSE IF char = Comma /\ ~st.inQuotes
        THEN [st EXCEPT !.values = Append(@, trim(st.current)),
                        !.current = <<>>, !.i = @ + 1]
        ELSE [st EXCEPT !.current = Append(@, char), !.i = @ + 1]

\* one iteration of the for loop of parseLine, the i++ included
parseLineStep(ln, st) ==
    LET char == ln[st.i]
        nextChar == IF st.i + 1 <= Len(ln) THEN ln[st.i + 1] ELSE "undefined"
    IN  IF char = DQuote
        THEN IF st.inQuotes /\ nextChar = DQuote
             THEN [st EXCEPT !.current = Append(@, DQuote), !.i = @ + 2]
             ELSE [st EXCEPT !.inQuotes = ~@, !.i = @ + 1]
        ELSE IF char = Comma /\ ~st.inQuotes
        THEN [st EXCEPT !.values = Append(@, trim(st.current)),
                        !.current = <<>>, !.i = @ + 1]
        ELSE [st EXCEPT !.current = Append(@, char), !.i = @ + 1]

\* the statements after the loop: push the last field and return
parseLineReturn(st) == Append(st.values, trim(st.current))

\* the for loop of parseLine: at most n more iterations from loop state st
\* (computed by halving n, so that long lines need no deep recursion)
RECURSIVE parseLineLoop(_, _, _)
parseLineLoop(ln, st, n) ==
    IF n = 0 \/ st.i > Len(ln) THEN st
    ELSE IF n = 1 THEN parseLineStep(ln, st)
    ELSE parseLineLoop(ln, parseLineLoop(ln, st, n \div 2), n - (n \div 2))

parseLine(ln) == parseLineReturn(parseLineLoop(ln, parseLineStart, Len(ln)))

\* the distinct elements of a sequence
Range(q) == {q[k] : k \in 1..Len(q)}

\* Array.prototype.join
RECURSIVE join(_, _)
join(parts, sep) ==
    IF parts = <<>> THEN <<>>
    ELSE IF Len(parts) = 1 THEN parts[1]
    ELSE parts[1] \o sep \o join(Tail(parts), sep)

\* String.prototype.split('\n'): the pieces between consecutive newlines
split(s) ==
    LET breaks == {i \in 1..Len(s) : s[i] = LF}
        \* position of the k-th newline; 0 before the first, Len(s) + 1 after the last
        at(k) == IF k = 0 THEN 0
                 ELSE IF k > Cardinality(breaks) THEN Len(s) + 1
                 ELSE CHOOSE i \in breaks : Cardinality({j \in breaks : j < i}) = k - 1
    IN  [k \in 1..Cardinality(breaks) + 1 |-> SubSeq(s, at(k - 1) + 1, at(k) - 1)]

\* the methods an object literal inherits from Object.prototype
ObjectPrototypeFunctions ==
    {"__defineGetter__", "__defineSetter__", "hasOwnProperty", "__lookupGetter__",
     "__lookupSetter__", "isPrototypeOf", "propertyIsEnumerable", "toString",
     "valueOf", "toLocaleString"}

\* row[key] of a JavaScript object: its own property, or else the property
\* it inherits from Object.prototype
Get(row, key) ==
    IF key \in DOMAIN row THEN row[key]
    ELSE IF key = Chars("__proto__") THEN ObjectPrototype
    ELSE IF key = Chars("constructor") THEN Fn("Object")
    ELSE IF \E name \in ObjectPrototypeFunctions : key = Chars(name)
    THEN Fn(CHOOSE name \in ObjectPrototypeFunctions : key = Chars(name))
    ELSE Undefined

\* a || b
Or(a, b) == IF Truthy(a) THEN a ELSE b

\* values.some(val => val && val.trim() !== '')
hasContent(values) ==
    \E k \in 1..Len(values) : values[k] # <<>> /\ trim(values[k]) # <<>>

\* headers.forEach((header, index) => row[header] = values[index] || '');
\* the assignment of a string to row['__proto__'] reaches the setter of
\* Object.prototype, which ignores it, so the row gets no such key
rowOf(headers, values) ==
    [h \in Range(headers) \ {Chars("__proto__")} |->
        LET index == CHOOSE k \in 1..Len(headers) :
                        headers[k] = h /\ \A m \in k + 1..Len(headers) : headers[m] # h
        IN  IF index <= Len(values) THEN Or(Str(values[index]), Str(<<>>))
            ELSE Str(<<>>)]

\* mutant: rows without content are kept
parseRows_keepEmpty(headers, lines, i, rows) ==
    rows \o [k \in 1..Len(lines) - i + 1 |-> rowOf(headers, parseLine(lines[k + i - 1]))]

\* the loop over lines[1..] of parseCSV; i is 1-based here
RECURSIVE parseRows(_, _, _, _)
parseRows(headers, lines, i, rows) ==
    IF i > Len(lines) THEN rows
    ELSE LET values == parseLine(lines[i])
         IN  IF ~hasContent(values) THEN parseRows(headers, lines, i + 1, rows)
             ELSE parseRows(headers, lines, i + 1, Append(rows, rowOf(headers, values)))

parseCSV(content) ==
    LET lines == SelectSeq(split(content), LAMBDA ln : trim(ln) # <<>>)
    IN  IF Len(lines) = 0 THEN <<>>
        ELSE parseRows(parseLine(lines[1]), lines, 2, <<>>)

(* Serializer of the conversion script *)

RECURSIVE digits(_)
digits(n) ==
    IF n < 10 THEN <<Chars("0123456789")[n + 1]>>
    ELSE Append(digits(n \div 10), Chars("0123456789")[(n % 10) + 1])

\* String(value)
JSString(x) ==
    CASE x.t = "string" -> x.v
      [] x.t = "undefined" -> Chars("undefined")
      [] x.t = "NaN" -> Chars("NaN")
      [] x.t = "boolean" -> IF x.v THEN Chars("true") ELSE Chars("false")
      [] x.t = "function" -> Chars("function ") \o Chars(x.name) \o Chars("() { [native code] }")
      [] x.t = "object" -> Chars("[object Object]")
      [] x.t = "number" -> IF x.v < 0 THEN <<"-">> \o digits(0 - x.v) ELSE digits(x.v)

\* s.replace(/"/g, '""')
RECURSIVE doubleQuotes(_)
doubleQuotes(s) ==
    IF s = <<>> THEN <<>>
    ELSE IF Head(s) = DQuote THEN <<DQuote, DQuote>> \o doubleQuotes(Tail(s))
    ELSE <<Head(s)>> \o doubleQuotes(Tail(s))

\* mutant: quotes inside a field are not doubled
csvField_noEscape(row, header) ==
    <<DQuote>> \o JSString(Or(Get(row, header), Str(<<>>))) \o <<DQuote>>

\* the callback of headers.map in arrayToCSV
csvField(row, header) ==
    <<DQuote>> \o doubleQuotes(JSString(Or(Get(row, header), Str(<<>>)))) \o <<DQuote>>

arrayToCSV(data, headers) ==
    LET csvLines ==
            <<join(headers, <<Comma>>)>>
            \o [k \in 1..Len(data) |->
                  join([j \in 1..Len(headers) |-> csvField(data[k], headers[j])],
                       <<Comma>>)]
    IN  join(csvLines, <<LF>>)

-----------------------------------------------------------------------------
(* Column names of the source spreadsheets, as the conversion script spells *)
(* them (transliterated in the definition names)                            *)

Col_dhatu == <<"U+0927", "U+093E", "U+0924", "U+0941">>    \* dhatu
Col_gana == <<"U+0917", "U+0923">>    \* gana
Col_pada == <<"U+092A", "U+0926">>    \* pada
Col_tinantam_lat == <<"U+0924", "U+093F", "U+0919", "U+0928", "U+094D", "U+0924", "U+0902">> \o Chars(" ") \o <<"U+0932", "U+091F", "U+094D">>    \* tinantam lat
Col_Portugues_acute == Chars("Portugu") \o <<"U+00E9">> \o Chars("s")    \* Portugues with acute e
Col_Espanol == Chars("Espa") \o <<"U+00F1">> \o Chars("ol")    \* Espanol with tilde n
Col_Ingles == Chars("Ingl") \o <<"U+00E9">> \o Chars("s")    \* Ingles with acute e
Col_lan == <<"U+0932", "U+0919", "U+094D">> \o Chars(" / Pasado Imperfecto")    \* lan / Pasado Imperfecto
Col_lin == <<"U+0932", "U+093F", "U+0919", "U+094D">> \o Chars(" / Potencial")    \* lin / Potencial
Col_lot == <<"U+0932", "U+094B", "U+091F", "U+094D">> \o Chars(" / Imperativo")    \* lot / Imperativo
Col_lit == <<"U+0932", "U+093F", "U+091F", "U+094D">> \o Chars(" / Pasado Perfecto")    \* lit / Pasado Perfecto
Col_ktva == <<"U+0915", "U+094D", "U+0924", "U+094D", "U+0935", "U+093E">> \o Chars(" / Gerundio")    \* ktva / Gerundio
Col_tumun == <<"U+0924", "U+0941", "U+092E", "U+0941", "U+0928", "U+094D">> \o Chars(" / Infinitivo")    \* tumun / Infinitivo
Col_kta == <<"U+0915", "U+094D", "U+0924">> \o Chars(" / PPP")    \* kta / PPP
Col_ITRANS == Chars("ITRANS")
Col_IATS == Chars("IATS")
Col_HarvardKyoto == Chars("Harvard-Kyoto")
Col_subantam == <<"U+0938", "U+0941", "U+092C", "U+0928", "U+094D", "U+0924", "U+0902">>    \* subantam
Col_linga == <<"U+0932", "U+093F", "U+0919", "U+094D", "U+0917">>    \* linga
Col_avyaya == <<"U+0905", "U+0935", "U+094D", "U+092F", "U+092F">>    \* avyaya
Col_vibhakti == <<"U+0935", "U+093F", "U+092D", "U+0915", "U+094D", "U+0924", "U+093F">>    \* vibhakti
Col_Portugues == Chars("Portugues")

\* the headword of the example row: gam
Gam == <<"U+0917", "U+092E", "U+094D">>

-----------------------------------------------------------------------------
(* Conversion script: one record per parsed row *)

\* a JavaScript object literal: the keys become strings
Object(rec) ==
    [h \in {Chars(k) : k \in DOMAIN rec} |->
        rec[CHOOSE k \in DOMAIN rec : Chars(k) = h]]

\* the callback of verbsRows.map; index is 0-based as in the script
convertVerb(row, index) ==
    Object([word_type |-> Str(Chars("verb")),
            word_devanagari |-> cleanText(Get(row, Col_dhatu)),
            root_devanagari |-> cleanText(Get(row, Col_dhatu)),
            verb_class |-> IF Truthy(Get(row, Col_gana)) /\ Get(row, Col_gana) # Str(<<Hyphen>>)
                           THEN Get(row, Col_gana) ELSE Str(<<>>),
            voice |-> mapVoice(Get(row, Col_pada)),
            standard_form |-> cleanText(Get(row, Col_tinantam_lat)),
            meaning_pt |-> cleanText(Get(row, Col_Portugues_acute)),
            meaning_es |-> cleanText(Get(row, Col_Espanol)),
            meaning_en |-> cleanText(Get(row, Col_Ingles)),
            past_imperfect |-> cleanText(Get(row, Col_lan)),
            potential |-> cleanText(Get(row, Col_lin)),
            imperative |-> cleanText(Get(row, Col_lot)),
            past_participle |-> cleanText(Get(row, Col_lit)),
            gerund |-> cleanText(Get(row, Col_ktva)),
            infinitive |-> cleanText(Get(row, Col_tumun)),
            ppp |-> cleanText(Get(row, Col_kta)),
            itrans |-> cleanText(Get(row, Col_ITRANS)),
            iast |-> cleanText(Get(row, Col_IATS)),
            harvard_kyoto |-> cleanText(Get(row, Col_HarvardKyoto)),
            is_published |-> Str(Chars("true")),
            order_index |-> Str(JSString(Num(index + 1)))])

\* the callback of substantivesRows.map
convertSubstantive(row, index) ==
    LET linga == Get(row, Col_linga)
    IN  Object([word_type |-> Str(Chars("substantive")),
                word_subtype |-> determineSubtype(linga),
                word_devanagari |-> cleanText(Get(row, Col_subantam)),
                gender |-> mapGender(linga),
                meaning_pt |-> cleanText(Get(row, Col_Portugues_acute)),
                meaning_es |-> cleanText(Get(row, Col_Espanol)),
                meaning_en |-> cleanText(Get(row, Col_Ingles)),
                itrans |-> cleanText(Get(row, Col_ITRANS)),
                iast |-> cleanText(Get(row, Col_IATS)),
                harvard_kyoto |-> cleanText(Get(row, Col_HarvardKyoto)),
                is_published |-> Str(Chars("true")),
                order_index |-> Str(JSString(Num(index + 1)))])

\* the callback of indeclinablesRows.map
convertIndeclinable(row, index) ==
    Object([word_type |-> Str(Chars("indeclinable")),
            word_devanagari |-> cleanText(Get(row, Col_avyaya)),
            grammatical_case |-> cleanText(Get(row, Col_vibhakti)),
            meaning_pt |-> cleanText(Get(row, Col_Portugues)),
            meaning_es |-> cleanText(Get(row, Col_Espanol)),
            meaning_en |-> cleanText(Get(row, Col_Ingles)),
            itrans |-> cleanText(Get(row, Col_ITRANS)),
            iast |-> cleanText(Get(row, Col_IATS)),
            harvard_kyoto |-> cleanText(Get(row, Col_HarvardKyoto)),
            is_published |-> Str(Chars("true")),
            order_index |-> Str(JSString(Num(index + 1)))])

verbsHeaders ==
    <<Chars("word_type"), Chars("word_devanagari"), Chars("root_devanagari"),
      Chars("verb_class"), Chars("voice"), Chars("standard_form"),
      Chars("meaning_pt"), Chars("meaning_es"), Chars("meaning_en"),
      Chars("past_imperfect"), Chars("potential"), Chars("imperative"),
      Chars("past_participle"), Chars("gerund"), Chars("infinitive"),
      Chars("ppp"), Chars("itrans"), Chars("iast"), Chars("harvard_kyoto"),
      Chars("is_published"), Chars("order_index")>>

substantivesHeaders ==
    <<Chars("word_type"), Chars("word_subtype"), Chars("word_devanagari"),
      Chars("gender"), Chars("meaning_pt"), Chars("meaning_es"),
      Chars("meaning_en"), Chars("itrans"), Chars("iast"),
      Chars("harvard_kyoto"), Chars("is_published"), Chars("order_index")>>

indeclinablesHeaders ==
    <<Chars("word_type"), Chars("word_devanagari"), Chars("grammatical_case"),
      Chars("meaning_pt"), Chars("meaning_es"), Chars("meaning_en"),
      Chars("itrans"), Chars("iast"), Chars("harvard_kyoto"),
      Chars("is_published"), Chars("order_index")>>

\* the three files in the order both passes process them
Kinds == <<"verbs", "substantives", "indeclinables">>

\* mutant: the callback is handed the 1-based position
convertRows_offByOne(kind, rows) ==
    [k \in 1..Len(rows) |->
        CASE kind = "verbs" -> convertVerb(rows[k], k)
          [] kind = "substantives" -> convertSubstantive(rows[k], k)
          [] kind = "indeclinables" -> convertIndeclinable(rows[k], k)]

\* rows.map(callback) of one file
convertRows(kind, rows) ==
    [k \in 1..Len(rows) |->
        CASE kind = "verbs" -> convertVerb(rows[k], k - 1)
          [] kind = "substantives" -> convertSubstantive(rows[k], k - 1)
          [] kind = "indeclinables" -> convertIndeclinable(rows[k], k - 1)]

headersOf(kind) ==
    CASE kind = "verbs" -> verbsHeaders
      [] kind = "substantives" -> substantivesHeaders
      [] kind = "indeclinables" -> indeclinablesHeaders

-----------------------------------------------------------------------------
(* Import migration: the record handed to create for one row *)

DecDigits == Chars("0123456789")
HexDigits == Chars("0123456789abcdef")

toLowerChar(c) ==
    IF \E k \in 1..26 : UpperCase[k] = c
    THEN LowerCase[CHOOSE k \in 1..26 : UpperCase[k] = c]
    ELSE c

isDigit(c, ds) == toLowerChar(c) \in Range(ds)

digitValue(c, ds) == (CHOOSE k \in 1..Len(ds) : ds[k] = toLowerChar(c)) - 1

\* the value of the longest prefix of s made of digits of ds, or -1 if empty
RECURSIVE digitsPrefix(_, _, _, _)
digitsPrefix(s, ds, acc, seen) ==
    IF s # <<>> /\ isDigit(Head(s), ds)
    THEN digitsPrefix(Tail(s), ds, acc * Len(ds) + digitValue(Head(s), ds), TRUE)
    ELSE IF seen THEN acc ELSE -1

\* parseInt(string) with no radix argument
parseInt(x) ==
    LET s0 == trimStart(JSString(x))
        neg == s0 # <<>> /\ Head(s0) = "-"
        s1 == IF s0 # <<>> /\ Head(s0) \in {"-", "+"} THEN Tail(s0) ELSE s0
        hex == Len(s1) >= 2 /\ s1[1] = "0" /\ s1[2] \in {"x", "X"}
        n == IF hex THEN digitsPrefix(Tail(Tail(s1)), HexDigits, 0, FALSE)
             ELSE digitsPrefix(s1, DecDigits, 0, FALSE)
    IN  IF n = -1 THEN NaN ELSE IF neg THEN Num(0 - n) ELSE Num(n)

\* mutant: no row is skipped
skipRow_never(row) == FALSE

\* !row.word_devanagari || row.word_devanagari.trim() === ''
skipRow(row) ==
    LET w == Get(row, Chars("word_devanagari"))
    IN  ~Truthy(w) \/ trim(w.v) = <<>>

F(row, name) == Get(row, Chars(name))

verbData(row) ==
    [word_type |-> F(row, "word_type"),
     word_devanagari |-> F(row, "word_devanagari"),
     root_devanagari |-> cleanTextMig(F(row, "root_devanagari")),
     verb_class |-> IF Truthy(F(row, "verb_class")) THEN parseInt(F(row, "verb_class"))
                    ELSE Undefined,
     voice |-> cleanTextMig(F(row, "voice")),
     standard_form |-> cleanTextMig(F(row, "standard_form")),
     meaning_pt |-> cleanTextMig(F(row, "meaning_pt")),
     meaning_es |-> cleanTextMig(F(row, "meaning_es")),
     meaning_en |-> cleanTextMig(F(row, "meaning_en")),
     past_imperfect |-> cleanTextMig(F(row, "past_imperfect")),
     potential |-> cleanTextMig(F(row, "potential")),
     imperative |-> cleanTextMig(F(row, "imperative")),
     past_participle |-> cleanTextMig(F(row, "past_participle")),
     gerund |-> cleanTextMig(F(row, "gerund")),
     infinitive |-> cleanTextMig(F(row, "infinitive")),
     ppp |-> cleanTextMig(F(row, "ppp")),
     itrans |-> cleanTextMig(F(row, "itrans")),
     iast |-> cleanTextMig(F(row, "iast")),
     harvard_kyoto |-> cleanTextMig(F(row, "harvard_kyoto")),
     is_published |-> Bool(F(row, "is_published") = Str(Chars("true"))),
     order_index |-> IF Truthy(F(row, "order_index")) THEN parseInt(F(row, "order_index"))
                     ELSE Undefined]

substantiveData(row) ==
    [word_type |-> F(row, "word_type"),
     word_subtype |-> cleanTextMig(F(row, "word_subtype")),
     word_devanagari |-> F(row, "word_devanagari"),
     gender |-> cleanTextMig(F(row, "gender")),
     meaning_pt |-> cleanTextMig(F(row, "meaning_pt")),
     meaning_es |-> cleanTextMig(F(row, "meaning_es")),
     meaning_en |-> cleanTextMig(F(row, "meaning_en")),
     itrans |-> cleanTextMig(F(row, "itrans")),
     iast |-> cleanTextMig(F(row, "iast")),
     harvard_kyoto |-> cleanTextMig(F(row, "harvard_kyoto")),
     is_published |-> Bool(F(row, "is_published") = Str(Chars("true"))),
     order_index |-> IF Truthy(F(row, "order_index")) THEN parseInt(F(row, "order_index"))
                     ELSE Undefined]

indeclinableData(row) ==
    [word_type |-> F(row, "word_type"),
     word_devanagari |-> F(row, "word_devanagari"),
     grammatical_case |-> cleanTextMig(F(row, "grammatical_case")),
     meaning_pt |-> cleanTextMig(F(row, "meaning_pt")),
     meaning_es |-> cleanTextMig(F(row, "meaning_es")),
     meaning_en |-> cleanTextMig(F(row, "meaning_en")),
     itrans |-> cleanTextMig(F(row, "itrans")),
     iast |-> cleanTextMig(F(row, "iast")),
     harvard_kyoto |-> cleanTextMig(F(row, "harvard_kyoto")),
     is_published |-> Bool(F(row, "is_published") = Str(Chars("true"))),
     order_index |-> IF Truthy(F(row, "order_index")) THEN parseInt(F(row, "order_index"))
                     ELSE Undefined]

dataOf(kind, row) ==
    CASE kind = "verbs" -> verbData(row)
      [] kind = "substantives" -> substantiveData(row)
      [] kind = "indeclinables" -> indeclinableData(row)

(* Datastore collaborator, as the migrations use it *)

\* mutant: findMany returns one page of a single entry
findMany_onePage(store) == SubSeq(store, 1, IF Len(store) > 1 THEN 1 ELSE Len(store))

\* entityService.findMany(collection, { limit: -1 })
findMany(store) == store

\* entityService.delete(collection, id)
delete(store, id) == SelectSeq(store, LAMBDA e : e.id # id)

\* entityService.create(collection, { data })
create(store, id, data) == Append(store, [id |-> id, data |-> data])

\* mutant: the catch block logs the error and goes on with the next file
catchBlock_swallow(kind) == "continue"

\* mutant: only the catch block of the verbs file forgets to rethrow
catchBlock_verbsLogOnly(kind) == IF kind = "verbs" THEN "continue" ELSE "rethrow"

\* catch (error) { console.error(...); throw error; }
catchBlock(kind) == "rethrow"

\* strapi.db.transaction(callback): roll back if the callback threw
transactionEnd(failed, store, before) == IF failed THEN before ELSE store

-----------------------------------------------------------------------------
(* Pure-function harness: an argument is drawn, one mapper is applied *)

RECURSIVE StringsUpTo(_, _)
StringsUpTo(alphabet, n) ==
    IF n = 0 THEN {<<>>}
    ELSE LET shorter == StringsUpTo(alphabet, n - 1)
         IN  shorter \cup {Append(s, c) : s \in shorter, c \in alphabet}

MapperAlphabet == {" ", "\t", Hyphen, EmDash, "P", "a", "u", "A", "U", "x", "U+1E9A"}

MapperInputs ==
    {Undefined}
    \cup {Str(s) : s \in StringsUpTo(MapperAlphabet, MaxStrLen)}
    \cup {Str(Chars(" ram ")), Str(Chars("p")), Str(Chars("  - "))}

FnIdle == fn = "none" /\ input = Undefined /\ output = Undefined

LineIdle == line = <<>> /\ pst = parseLineStart /\ fields = <<>>

CsvIdle ==
    /\ csvStage = "idle"
    /\ csvFrom = "raw"
    /\ csvHeaders = <<>>
    /\ csvData = <<>>
    /\ csvText = <<>>
    /\ csvRows = <<>>

NoFile == [exists |-> FALSE, content |-> <<>>]

File(text) == [exists |-> TRUE, content |-> text]

KindSet == Range(Kinds)

PipeIdle ==
    /\ srcFiles = [k \in KindSet |-> NoFile]
    /\ outFiles = [k \in KindSet |-> NoFile]
    /\ parsed = [k \in KindSet |-> <<>>]
    /\ converted = [k \in KindSet |-> <<>>]
    /\ db = <<>>
    /\ nextId = 1
    /\ pc = "idle"
    /\ phase = "none"
    /\ snapshot = <<>>
    /\ cur = [kind |-> 1, rows |-> <<>>, idx |-> 1]
    /\ stats = [k \in KindSet |-> 0]
    /\ entries = <<>>
    /\ threw = FALSE
    /\ creates = 0
    /\ printed = FALSE
    /\ lastOp = "none"
    /\ runs = 0

FnInit ==
    /\ fn = "none"
    /\ input \in MapperInputs
    /\ output = Undefined
    /\ LineIdle
    /\ CsvIdle
    /\ PipeIdle

ApplyCleanText ==
    /\ fn = "none"
    /\ UNCHANGED <<lineVars, csvVars, pipeVars>>
    /\ fn' = "cleanText"
    /\ output' = cleanText(input)
    /\ UNCHANGED input

ApplyCleanTextMig ==
    /\ fn = "none"
    /\ UNCHANGED <<lineVars, csvVars, pipeVars>>
    /\ fn' = "cleanTextMig"
    /\ output' = cleanTextMig(input)
    /\ UNCHANGED input

ApplyMapVoice ==
    /\ fn = "none"
    /\ UNCHANGED <<lineVars, csvVars, pipeVars>>
    /\ fn' = "mapVoice"
    /\ output' = mapVoice(input)
    /\ UNCHANGED input

ApplyMapVoiceMig ==
    /\ fn = "none"
    /\ UNCHANGED <<lineVars, csvVars, pipeVars>>
    /\ fn' = "mapVoiceMig"
    /\ output' = mapVoiceMig(input)
    /\ UNCHANGED input

FnNext ==
    \/ ApplyCleanText
    \/ ApplyCleanTextMig
    \/ ApplyMapVoice
    \/ ApplyMapVoiceMig

SpecFn == FnInit /\ [][FnNext]_vars

\* r is s with its leading and trailing white space removed
IsTrimOf(r, s) ==
    \E i \in 1..Len(s) + 1, j \in 0..Len(s) :
        /\ r = SubSeq(s, i, j)
        /\ \A k \in 1..i - 1 : s[k] \in WhiteSpace
        /\ \A k \in j + 1..Len(s) : s[k] \in WhiteSpace
        /\ r # <<>> => r[1] \notin WhiteSpace /\ r[Len(r)] \notin WhiteSpace

\* the arguments cleanText maps to the empty sentinel according to the claim
CleanTextSentinelCase(x) ==
    \/ x = Undefined
    \/ x = Str(<<EmDash>>)
    \/ x = Str(<<Hyphen>>)
    \/ IsStr(x) /\ \A k \in 1..Len(x.v) : x.v[k] \in WhiteSpace

\* C9: cleanText returns the empty sentinel ('' in the conversion script,
\* undefined in the migration) exactly when its argument is absent, is the
\* em dash, is the hyphen, or is blank after trimming; for every other string
\* it returns the string without its leading and trailing white space.
C9_CleanTextSentinel ==
    /\ fn = "cleanText" =>
          IF CleanTextSentinelCase(input)
          THEN output = Str(<<>>)
          ELSE IsStr(output) /\ output.v # <<>> /\ IsTrimOf(output.v, input.v)
    /\ fn = "cleanTextMig" =>
          IF CleanTextSentinelCase(input)
          THEN output = Undefined
          ELSE IsStr(output) /\ output.v # <<>> /\ IsTrimOf(output.v, input.v)

C9_Witness ==
    /\ fn = "cleanText"
    /\ input = Str(Chars(" ram "))
    /\ output = Str(Chars("ram"))

\* the value the claim assigns to mapVoice(x), given the empty sentinel
VoiceOf(x, sentinel) ==
    CASE x \in {Str(<<"P">>), Str(<<"p">>)} -> Str(Chars("parasmaipada"))
      [] x \in {Str(<<"A">>), Str(<<"a">>)} -> Str(Chars("atmanepada"))
      [] x \in {Str(<<"U">>), Str(<<"u">>)} -> Str(Chars("ubhayapada"))
      [] OTHER -> sentinel

\* C10: mapVoice returns a value for every argument, absent and empty ones
\* included: the voice name for P, A, U in either letter case and the empty
\* sentinel for everything else.
C10_MapVoiceTotal ==
    /\ fn = "mapVoice" => output = VoiceOf(input, Str(<<>>))
    /\ fn = "mapVoiceMig" => output = VoiceOf(input, Undefined)

C10_Witness ==
    /\ fn = "mapVoice"
    /\ input = Str(<<"u">>)
    /\ output = Str(Chars("ubhayapada"))

-----------------------------------------------------------------------------
(* parseLine run: a line is drawn and split one loop iteration at a time;   *)
(* fields is empty until parseLine returns (it returns at least one field)  *)

LineAlphabet == {"x", " ", DQuote, Comma}

HeSaidBare == Chars("He said \"\"hi\"\"")
HeSaidQuoted == Chars("\"He said \"\"hi\"\"\"")

LineInputs ==
    StringsUpTo(LineAlphabet, MaxLineLen) \cup {HeSaidBare, HeSaidQuoted}

LineInit ==
    /\ line \in LineInputs
    /\ pst = parseLineStart
    /\ fields = <<>>
    /\ FnIdle
    /\ CsvIdle
    /\ PipeIdle

ParseLineIterate ==
    /\ fields = <<>>
    /\ pst.i <= Len(line)
    /\ pst' = parseLineStep(line, pst)
    /\ UNCHANGED <<line, fields>>
    /\ UNCHANGED <<fnVars, csvVars, pipeVars>>

ParseLineFinish ==
    /\ fields = <<>>
    /\ pst.i > Len(line)
    /\ fields' = parseLineReturn(pst)
    /\ UNCHANGED <<line, pst>>
    /\ UNCHANGED <<fnVars, csvVars, pipeVars>>

LineNext == ParseLineIterate \/ ParseLineFinish

SpecLine == LineInit /\ [][LineNext]_vars

\* what the claim says one loop iteration does, for the iteration that is
\* about to run in the current state
QuoteRules ==
    (fields = <<>> /\ pst.i <= Len(line)) =>
        LET char == line[pst.i]
            doubled == pst.i + 1 <= Len(line) /\ line[pst.i + 1] = DQuote
            after == parseLineStep(line, pst)
        IN  /\ (char = DQuote /\ pst.inQuotes /\ doubled) =>
                  /\ after.current = Append(pst.current, DQuote)
                  /\ after.inQuotes = pst.inQuotes
                  /\ after.values = pst.values
                  /\ after.i = pst.i + 2
            /\ (char = DQuote /\ ~(pst.inQuotes /\ doubled)) =>
                  /\ after.inQuotes = ~pst.inQuotes
                  /\ after.current = pst.current
                  /\ after.values = pst.values
                  /\ after.i = pst.i + 1
            /\ char = Comma =>
                  /\ (Len(after.values) = Len(pst.values) + 1) <=> ~pst.inQuotes
                  /\ pst.inQuotes => after.current = Append(pst.current, Comma)
                  /\ after.inQuotes = pst.inQuotes

\* C4 as stated: the quote rules, and the bare field He said ""hi"" parses to
\* He said "hi".
C4_Original ==
    /\ QuoteRules
    /\ (line = HeSaidBare /\ fields # <<>>) =>
          fields = <<Chars("He said \"hi\"")>>

\* C4 (amended): a quote followed by a quote while inside quotes yields one
\* literal quote and leaves the flag alone; every other quote only toggles the
\* flag; a comma ends the field only when the flag is false.  The quoted field
\* "He said ""hi""" parses to He said "hi"; the bare field He said ""hi""
\* parses to He said hi, its quotes being taken as toggles.
C4_QuoteHandling ==
    /\ QuoteRules
    /\ (line = HeSaidQuoted /\ fields # <<>>) =>
          fields = <<Chars("He said \"hi\"")>>
    /\ (line = HeSaidBare /\ fields # <<>>) =>
          fields = <<Chars("He said hi")>>

C4_Witness ==
    /\ line = HeSaidQuoted
    /\ fields = <<Chars("He said \"hi\"")>>

-----------------------------------------------------------------------------
(* Parser run: either records are serialized by arrayToCSV and the text is  *)
(* parsed back, or a raw text is parsed                                     *)

FieldAlphabet == {DQuote, Comma}

\* values of the first column of the one-column list k: every string of
\* quotes and commas, padded and blank strings, and a raw newline
FieldValues ==
    StringsUpTo(FieldAlphabet, MaxFieldLen)
        \cup {<<"x">>, <<" ">>, <<" ", "x">>, <<"x", " ">>, <<"x", LF, "y">>}

\* values of the first column of the other header lists
FewFieldValues == {<<>>, <<"x">>, <<DQuote, Comma>>}

\* values of the other columns
OtherFieldValues == {<<>>, <<"x">>}

HeaderLists ==
    { <<Chars("k")>>, <<Chars("k"), Chars("w")>>, <<Chars("k"), Chars("k")>>,
      <<Chars(" k")>>, <<Chars("a,b")>>, <<<<>>>>, <<<<>>, Chars("w")>>,
      <<Chars("__proto__")>>, <<Chars("constructor")>> }

\* the object literal {}: a record with no key of its own
EmptyObject == [h \in {} |-> Undefined]

\* the records over a header list: one string per header, or no key at all
RecordsOver(H) ==
    {r \in [Range(H) -> {Str(v) : v \in FieldValues}] :
        /\ H # <<Chars("k")>> => r[H[1]].v \in FewFieldValues
        /\ \A k \in 2..Len(H) : H[k] # H[1] => r[H[k]].v \in OtherFieldValues}
    \cup {EmptyObject}

RECURSIVE SeqsUpTo(_, _)
SeqsUpTo(S, n) ==
    IF n = 0 THEN {<<>>}
    ELSE LET shorter == SeqsUpTo(S, n - 1)
         IN  shorter \cup {Append(q, e) : q \in shorter, e \in S}

RawLines ==
    { <<>>, Chars(" "), Chars("k,w"), Chars(","), Chars(" , "), Chars("x"),
      Chars(",y"), Chars("\"\""), Chars("\" \",") }

RawTexts == {join(q, <<LF>>) : q \in SeqsUpTo(RawLines, MaxRawLines)}

CsvInit ==
    /\ \/ /\ csvStage = "data"
          /\ csvFrom = "data"
          /\ csvHeaders \in HeaderLists
          /\ csvData \in SeqsUpTo(RecordsOver(csvHeaders), MaxRecords)
          /\ csvText = <<>>
       \/ /\ csvStage = "text"
          /\ csvFrom = "raw"
          /\ csvHeaders = <<>>
          /\ csvData = <<>>
          /\ csvText \in RawTexts
    /\ csvRows = <<>>
    /\ FnIdle
    /\ LineIdle
    /\ PipeIdle

Serialize ==
    /\ csvStage = "data"
    /\ csvText' = arrayToCSV(csvData, csvHeaders)
    /\ csvStage' = "text"
    /\ UNCHANGED <<csvFrom, csvHeaders, csvData, csvRows>>
    /\ UNCHANGED <<fnVars, lineVars, pipeVars>>

Parse ==
    /\ csvStage = "text"
    /\ csvRows' = parseCSV(csvText)
    /\ csvStage' = "parsed"
    /\ UNCHANGED <<csvFrom, csvHeaders, csvData, csvText>>
    /\ UNCHANGED <<fnVars, lineVars, pipeVars>>

CsvNext == Serialize \/ Parse

SpecCsv == CsvInit /\ [][CsvNext]_vars

NoNewline(R) ==
    \A k \in 1..Len(R) : \A h \in DOMAIN R[k] : LF \notin Range(R[k][h].v)

\* C3 as stated: parsing the serialization of any records without raw
\* newlines returns the records.
C3_Original ==
    (csvStage = "parsed" /\ csvFrom = "data" /\ NoNewline(csvData)) =>
        csvRows = csvData

\* the header line written by arrayToCSV is read back as the header list
HeadersSurvive(H) ==
    /\ trim(join(H, <<Comma>>)) # <<>>
    /\ \A k \in 1..Len(H) :
          /\ H[k] = trim(H[k])
          /\ Comma \notin Range(H[k])
          /\ DQuote \notin Range(H[k])
          /\ LF \notin Range(H[k])
          /\ H[k] # Chars("__proto__")

\* no field has leading or trailing white space, and no record is all empty
RecordsSurvive(R) ==
    \A k \in 1..Len(R) :
        /\ \A h \in DOMAIN R[k] : R[k][h].v = trim(R[k][h].v)
        /\ \E h \in DOMAIN R[k] : R[k][h].v # <<>>

\* C3 (amended): parseCSV(arrayToCSV(R, H)) returns R, in order and with the
\* same value for every header, when no field holds a raw newline, every
\* field is a string without leading or trailing white space, every record
\* has at least one non-empty field, no header holds a comma, a double quote,
\* a newline or leading or trailing white space, no header is '__proto__',
\* and the header line is not blank.
C3_RoundTrip ==
    (/\ csvStage = "parsed"
     /\ csvFrom = "data"
     /\ NoNewline(csvData)
     /\ HeadersSurvive(csvHeaders)
     /\ RecordsSurvive(csvData)) =>
        csvRows = csvData

C3_Witness ==
    /\ csvStage = "parsed"
    /\ csvFrom = "data"
    /\ csvHeaders = <<Chars("k"), Chars("w")>>
    /\ Len(csvData) = 2
    /\ EmptyObject \notin Range(csvData)
    /\ csvData[1][Chars("k")] = Str(<<DQuote, Comma>>)
    /\ csvData[2][Chars("k")] = Str(<<>>)
    /\ csvData[2][Chars("w")] = Str(<<"x">>)
    /\ csvRows = csvData

\* the lines parseCSV keeps after its blank-line filter
KeptLines(text) == SelectSeq(split(text), LAMBDA ln : trim(ln) # <<>>)

\* all lines after the header line, blank ones included
DataLines(text) ==
    LET all == split(text)
        nonBlank == {k \in 1..Len(all) : trim(all[k]) # <<>>}
    IN  IF nonBlank = {} THEN <<>>
        ELSE LET hdr == CHOOSE k \in nonBlank : \A m \in nonBlank : k <= m
             IN  SubSeq(all, hdr + 1, Len(all))

\* a data line contributes a record: it is not blank and some split field is
\* not empty after trimming
Contributes(ln) ==
    /\ trim(ln) # <<>>
    /\ \E k \in 1..Len(parseLine(ln)) : trim(parseLine(ln)[k]) # <<>>

\* C6: a data line that is blank, or whose split fields are all empty after
\* trimming, gives no record; every other data line gives exactly one record,
\* and the records keep the order of their lines.
C6_BlankRows ==
    csvStage = "parsed" =>
        LET contributing == SelectSeq(DataLines(csvText), Contributes)
        IN  /\ Len(csvRows) = Len(contributing)
            /\ \A k \in 1..Len(csvRows) :
                  csvRows[k] = rowOf(parseLine(KeptLines(csvText)[1]),
                                     parseLine(contributing[k]))

C6_Witness ==
    /\ csvStage = "parsed"
    /\ csvFrom = "raw"
    /\ csvText = Chars("k,w\n , \nx")
    /\ csvRows = <<[h \in {Chars("k"), Chars("w")} |->
                      IF h = Chars("k") THEN Str(Chars("x")) ELSE Str(<<>>)]>>

-----------------------------------------------------------------------------
(* The pipeline: conversion script, import migration, cleanup migration *)

verbsSourceHeaders ==
    <<Col_dhatu, Col_gana, Col_pada, Col_tinantam_lat, Col_Portugues_acute,
      Col_Espanol, Col_Ingles, Col_lan, Col_lin, Col_lot, Col_lit, Col_ktva,
      Col_tumun, Col_kta, Col_ITRANS, Col_IATS, Col_HarvardKyoto>>

substantivesSourceHeaders ==
    <<Col_subantam, Col_linga, Col_Portugues_acute, Col_Espanol, Col_Ingles,
      Col_ITRANS, Col_IATS, Col_HarvardKyoto>>

indeclinablesSourceHeaders ==
    <<Col_avyaya, Col_vibhakti, Col_Portugues, Col_Espanol, Col_Ingles,
      Col_ITRANS, Col_IATS, Col_HarvardKyoto>>

sourceHeadersOf(kind) ==
    CASE kind = "verbs" -> verbsSourceHeaders
      [] kind = "substantives" -> substantivesSourceHeaders
      [] kind = "indeclinables" -> indeclinablesSourceHeaders

\* the source column that holds the headword
headwordOf(kind) ==
    CASE kind = "verbs" -> Col_dhatu
      [] kind = "substantives" -> Col_subantam
      [] kind = "indeclinables" -> Col_avyaya

\* the word_type the conversion script writes for a file
wordTypeOf(kind) ==
    CASE kind = "verbs" -> Chars("verb")
      [] kind = "substantives" -> Chars("substantive")
      [] kind = "indeclinables" -> Chars("indeclinable")

\* data lines of the generated source spreadsheets
GamLine == Gam \o Chars(",1,P,,,,to go,,,,,,,,,,")

VerbLines ==
    { GamLine,
      Chars(" ,4,a,x,x,x,x,x,x,x,x,x,x,x,x,x,x"),
      <<"U+092D", "U+0942">> \o <<Comma, EmDash>>
          \o Chars(",u,,,,\"to be, \"\"exist\"\"\",,,,,,,,,,"),
      Chars(" , ,,,,,,,,,,,,,,,") }

SubstantiveLines ==
    { <<"U+0926", "U+0947", "U+0935">> \o Chars(",m,deus,dios,god,,,"),
      Chars("-,f,x,x,x,x,x,x") }

IndeclinableLines ==
    { <<"U+091A">> \o Chars(",,e,y,and,ca,ca,ca"),
      <<EmDash>> \o Chars(",2,,,x,,,") }

linesOf(kind) ==
    CASE kind = "verbs" -> VerbLines
      [] kind = "substantives" -> SubstantiveLines
      [] kind = "indeclinables" -> IndeclinableLines

sourceText(kind, lines) ==
    join(<<join(sourceHeadersOf(kind), <<Comma>>)>> \o lines, <<LF>>)

\* a record some earlier work left in the collection
LegacyEntry ==
    [id |-> 0,
     data |-> [word_type |-> Str(Chars("verb")),
               word_devanagari |-> Str(<<"U+0915", "U+0943">>)]]

PipeInit ==
    /\ \E present \in 0..3 :
       \E v \in SeqsUpTo(VerbLines, IF present >= 1 THEN MaxRows ELSE 0) :
       \E sb \in SeqsUpTo(SubstantiveLines, IF present >= 2 THEN MaxRows - Len(v) ELSE 0) :
       \E ind \in SeqsUpTo(IndeclinableLines,
                           IF present >= 3 THEN MaxRows - Len(v) - Len(sb) ELSE 0) :
          srcFiles =
            [k \in KindSet |->
                CASE k = "verbs" ->
                        IF present >= 1 THEN File(sourceText(k, v)) ELSE NoFile
                  [] k = "substantives" ->
                        IF present >= 2 THEN File(sourceText(k, sb)) ELSE NoFile
                  [] k = "indeclinables" ->
                        IF present >= 3 THEN File(sourceText(k, ind)) ELSE NoFile]
    /\ outFiles = [k \in KindSet |-> NoFile]
    /\ parsed = [k \in KindSet |-> <<>>]
    /\ converted = [k \in KindSet |-> <<>>]
    /\ db \in {<<>>, <<LegacyEntry>>}
    /\ nextId = 1
    /\ pc = "idle"
    /\ phase = "none"
    /\ snapshot = <<>>
    /\ cur = [kind |-> 1, rows |-> <<>>, idx |-> 1]
    /\ stats = [k \in KindSet |-> 0]
    /\ entries = <<>>
    /\ threw = FALSE
    /\ creates = 0
    /\ printed = FALSE
    /\ lastOp = "none"
    /\ runs = 0
    /\ FnIdle
    /\ LineIdle
    /\ CsvIdle

\* the files the conversion script gets through: it stops at the first
\* source file readFileSync cannot read
readable(n) == \A m \in 1..n : srcFiles[Kinds[m]].exists

\* the conversion script, run from start to end; it is run before the
\* migrations, if at all
Convert ==
    /\ pc = "idle"
    /\ runs = 0
    /\ \A k \in KindSet : ~outFiles[k].exists
    /\ parsed' =
         [k \in KindSet |->
            IF \E n \in 1..3 : Kinds[n] = k /\ readable(n)
            THEN parseCSV(srcFiles[k].content)
            ELSE parsed[k]]
    /\ converted' =
         [k \in KindSet |->
            IF \E n \in 1..3 : Kinds[n] = k /\ readable(n)
            THEN convertRows(k, parsed'[k])
            ELSE converted[k]]
    /\ outFiles' =
         [k \in KindSet |->
            IF \E n \in 1..3 : Kinds[n] = k /\ readable(n)
            THEN File(arrayToCSV(converted'[k], headersOf(k)))
            ELSE outFiles[k]]
    /\ UNCHANGED <<srcFiles, db, nextId, pc, phase, snapshot, cur, stats,
                   entries, threw, creates, printed, lastOp, runs>>
    /\ UNCHANGED <<fnVars, lineVars, csvVars>>

(* Import migration, up() *)

\* up() is called: the transaction begins and the callback starts
UpBegin ==
    /\ pc = "idle"
    /\ runs < MaxRuns
    /\ pc' = "up"
    /\ phase' = "read"
    /\ snapshot' = db
    /\ cur' = [kind |-> 1, rows |-> <<>>, idx |-> 1]
    /\ stats' = [k \in KindSet |-> 0]
    /\ threw' = FALSE
    /\ creates' = 0
    /\ printed' = FALSE
    /\ runs' = runs + 1
    /\ UNCHANGED <<srcFiles, outFiles, parsed, converted, db, nextId, entries, lastOp>>
    /\ UNCHANGED <<fnVars, lineVars, csvVars>>

\* fs.readFileSync and parseCSV at the head of a try block
UpReadFile ==
    /\ pc = "up"
    /\ phase = "read"
    /\ IF outFiles[Kinds[cur.kind]].exists
       THEN /\ cur' = [cur EXCEPT !.rows = parseCSV(outFiles[Kinds[cur.kind]].content),
                                  !.idx = 1]
            /\ phase' = "rows"
            /\ UNCHANGED threw
       ELSE /\ phase' = "caught"
            /\ threw' = TRUE
            /\ UNCHANGED cur
    /\ UNCHANGED <<srcFiles, outFiles, parsed, converted, db, nextId, pc, snapshot,
                   stats, entries, creates, printed, lastOp, runs>>
    /\ UNCHANGED <<fnVars, lineVars, csvVars>>

\* one iteration of for (const row of rows): skip, or create (which the
\* datastore may reject)
UpRow ==
    /\ pc = "up"
    /\ phase = "rows"
    /\ cur.idx <= Len(cur.rows)
    /\ LET row == cur.rows[cur.idx]
           kind == Kinds[cur.kind]
       IN  IF skipRow(row)
           THEN /\ cur' = [cur EXCEPT !.idx = @ + 1]
                /\ UNCHANGED <<db, nextId, stats, phase, threw, creates>>
           ELSE /\ creates' = creates + 1
                /\ \/ /\ db' = create(db, nextId, dataOf(kind, row))
                      /\ nextId' = nextId + 1
                      /\ stats' = [stats EXCEPT ![kind] = @ + 1]
                      /\ cur' = [cur EXCEPT !.idx = @ + 1]
                      /\ UNCHANGED <<phase, threw>>
                   \/ /\ phase' = "caught"
                      /\ threw' = TRUE
                      /\ UNCHANGED <<db, nextId, stats, cur>>
    /\ UNCHANGED <<srcFiles, outFiles, parsed, converted, pc, snapshot, entries,
                   printed, lastOp, runs>>
    /\ UNCHANGED <<fnVars, lineVars, csvVars>>

\* the statements after a try block: the next file, or the summary
nextPhase(k) == IF k < 3 THEN "read" ELSE "summary"

\* the loop of a file is over: its count is logged and the try block ends
UpFileDone ==
    /\ pc = "up"
    /\ phase = "rows"
    /\ cur.idx > Len(cur.rows)
    /\ phase' = nextPhase(cur.kind)
    /\ cur' = IF cur.kind < 3 THEN [kind |-> cur.kind + 1, rows |-> <<>>, idx |-> 1]
              ELSE cur
    /\ UNCHANGED <<srcFiles, outFiles, parsed, converted, db, nextId, pc, snapshot,
                   stats, entries, threw, creates, printed, lastOp, runs>>
    /\ UNCHANGED <<fnVars, lineVars, csvVars>>

\* the catch block of the file that threw
UpCatch ==
    /\ pc = "up"
    /\ phase = "caught"
    /\ IF catchBlock(Kinds[cur.kind]) = "rethrow"
       THEN /\ phase' = "thrown"
            /\ UNCHANGED cur
       ELSE /\ phase' = nextPhase(cur.kind)
            /\ cur' = IF cur.kind < 3
                      THEN [kind |-> cur.kind + 1, rows |-> <<>>, idx |-> 1]
                      ELSE cur
    /\ UNCHANGED <<srcFiles, outFiles, parsed, converted, db, nextId, pc, snapshot,
                   stats, entries, threw, creates, printed, lastOp, runs>>
    /\ UNCHANGED <<fnVars, lineVars, csvVars>>

\* the summary is printed and the callback returns
UpSummary ==
    /\ pc = "up"
    /\ phase = "summary"
    /\ printed' = TRUE
    /\ phase' = "returned"
    /\ UNCHANGED <<srcFiles, outFiles, parsed, converted, db, nextId, pc, snapshot,
                   cur, stats, entries, threw, creates, lastOp, runs>>
    /\ UNCHANGED <<fnVars, lineVars, csvVars>>

(* Import migration down() and cleanup migration up(): the same wipe *)

WipeBegin(op) ==
    /\ pc = "idle"
    /\ runs < MaxRuns
    /\ pc' = op
    /\ phase' = "delete"
    /\ snapshot' = db
    /\ entries' = findMany(db)
    /\ threw' = FALSE
    /\ runs' = runs + 1
    /\ UNCHANGED <<srcFiles, outFiles, parsed, converted, db, nextId, cur, stats,
                   creates, printed, lastOp>>
    /\ UNCHANGED <<fnVars, lineVars, csvVars>>

DownBegin == WipeBegin("down")

CleanupBegin == WipeBegin("cleanup")

\* one iteration of for (const entry of entries): delete, which the
\* datastore may reject
WipeDelete ==
    /\ pc \in {"down", "cleanup"}
    /\ phase = "delete"
    /\ entries # <<>>
    /\ \/ /\ db' = delete(db, Head(entries).id)
          /\ entries' = Tail(entries)
          /\ UNCHANGED <<phase, threw>>
       \/ /\ phase' = "thrown"
          /\ threw' = TRUE
          /\ UNCHANGED <<db, entries>>
    /\ UNCHANGED <<srcFiles, outFiles, parsed, converted, nextId, pc, snapshot, cur,
                   stats, creates, printed, lastOp, runs>>
    /\ UNCHANGED <<fnVars, lineVars, csvVars>>

\* the count is logged and the callback returns
WipeDone ==
    /\ pc \in {"down", "cleanup"}
    /\ phase = "delete"
    /\ entries = <<>>
    /\ phase' = "returned"
    /\ UNCHANGED <<srcFiles, outFiles, parsed, converted, db, nextId, pc, snapshot,
                   cur, stats, entries, threw, creates, printed, lastOp, runs>>
    /\ UNCHANGED <<fnVars, lineVars, csvVars>>

\* the callback of strapi.db.transaction returned or threw: commit or roll
\* back, and the migration is over
TransactionEnd ==
    /\ pc \in {"up", "down", "cleanup"}
    /\ phase \in {"returned", "thrown"}
    /\ db' = transactionEnd(phase = "thrown", db, snapshot)
    /\ lastOp' = pc
    /\ pc' = "idle"
    /\ phase' = "none"
    /\ cur' = [kind |-> 1, rows |-> <<>>, idx |-> 1]
    /\ entries' = <<>>
    /\ UNCHANGED <<srcFiles, outFiles, parsed, converted, nextId, snapshot,
                   stats, threw, creates, printed, runs>>
    /\ UNCHANGED <<fnVars, lineVars, csvVars>>

Next ==
    \/ Convert
    \/ UpBegin
    \/ UpReadFile
    \/ UpRow
    \/ UpFileDone
    \/ UpCatch
    \/ UpSummary
    \/ DownBegin
    \/ CleanupBegin
    \/ WipeDelete
    \/ WipeDone
    \/ TransactionEnd

Spec == PipeInit /\ [][Next]_vars

-----------------------------------------------------------------------------
(* Claims about the pipeline *)

\* the records the running import, or the import that just committed, added
NewEntries ==
    IF pc = "up" \/ (pc = "idle" /\ lastOp = "up" /\ ~threw)
    THEN SubSeq(db, Len(snapshot) + 1, Len(db))
    ELSE <<>>

\* C1: when a file read or a create call of up() throws, whatever the file
\* and the position, the collection holds after the rollback exactly the
\* records it held when the run started.
C1_AllOrNothing ==
    (pc = "idle" /\ lastOp = "up" /\ threw) => db = snapshot

\* a run that created a record, then had a create call rejected, and was
\* rolled back to a collection that was not empty
C1_Witness ==
    /\ pc = "idle"
    /\ lastOp = "up"
    /\ threw
    /\ creates = 2
    /\ stats["verbs"] = 1
    /\ snapshot = <<LegacyEntry>>
    /\ db = snapshot

HasHeadword(v) == Truthy(v) /\ trim(v.v) # <<>>

\* C2 as stated: neither the normalized CSV files nor the collection ever
\* hold a record of this pipeline whose word_devanagari is empty.
C2_Original ==
    /\ \A k \in KindSet :
          outFiles[k].exists =>
              LET written == parseCSV(outFiles[k].content)
              IN  \A n \in 1..Len(written) :
                      HasHeadword(Get(written[n], Chars("word_devanagari")))
    /\ \A n \in 1..Len(db) :
          db[n].id >= 1 => HasHeadword(db[n].data.word_devanagari)

\* the source row of the example: dhatu gam, gana 1, pada P, Ingles 'to go'
GamRow ==
    [h \in Range(verbsSourceHeaders) |->
        CASE h = Col_dhatu -> Str(Gam)
          [] h = Col_gana -> Str(Chars("1"))
          [] h = Col_pada -> Str(Chars("P"))
          [] h = Col_Ingles -> Str(Chars("to go"))
          [] OTHER -> Str(<<>>)]

GamRecord ==
    [h \in Range(verbsHeaders) |->
        CASE h = Chars("word_type") -> Str(Chars("verb"))
          [] h = Chars("word_devanagari") -> Str(Gam)
          [] h = Chars("root_devanagari") -> Str(Gam)
          [] h = Chars("verb_class") -> Str(Chars("1"))
          [] h = Chars("voice") -> Str(Chars("parasmaipada"))
          [] h = Chars("meaning_en") -> Str(Chars("to go"))
          [] h = Chars("is_published") -> Str(Chars("true"))
          [] h = Chars("order_index") -> Str(Chars("1"))
          [] OTHER -> Str(<<>>)]

FirstVerbRowIsGam == parsed["verbs"] # <<>> /\ parsed["verbs"][1] = GamRow

\* C5: when the first parsed row of the verbs spreadsheet is the example row,
\* the first converted record is the example record: the eight named values,
\* and the other 13 of the 21 verb columns empty.
C5_VerbConversion ==
    (outFiles["verbs"].exists /\ FirstVerbRowIsGam) =>
        /\ converted["verbs"][1] = GamRecord
        /\ Cardinality({h \in Range(verbsHeaders) : GamRecord[h] = Str(<<>>)}) = 13

C5_Witness ==
    /\ outFiles["verbs"].exists
    /\ FirstVerbRowIsGam
    /\ converted["verbs"][1] = GamRecord

\* C7: when the cleanup migration's up() or the import migration's down()
\* completes without error, the collection is empty, whoever created the
\* records it held.
C7_FullWipe ==
    (pc = "idle" /\ lastOp \in {"down", "cleanup"} /\ ~threw) => db = <<>>

\* a cleanup that removed a legacy record and an imported one
C7_Witness ==
    /\ pc = "idle"
    /\ lastOp = "cleanup"
    /\ ~threw
    /\ Len(snapshot) = 2
    /\ snapshot[1] = LegacyEntry
    /\ snapshot[2].id >= 1
    /\ db = <<>>

\* the order_index values of the new records of one file, in insertion order
InsertedIndexes(kind) ==
    LET mine == SelectSeq(NewEntries,
                          LAMBDA e : e.data.word_type = Str(wordTypeOf(kind)))
    IN  [n \in 1..Len(mine) |-> mine[n].data.order_index]

\* the 1-based positions of the parsed source rows that have a headword
KeptPositions(kind) ==
    {n \in 1..Len(parsed[kind]) :
        cleanText(Get(parsed[kind][n], headwordOf(kind))) # Str(<<>>)}

\* the import has gone through the whole file Kinds[n] without a throw
FileImported(n) ==
    /\ ~threw
    /\ \/ pc = "idle" /\ lastOp = "up"
       \/ /\ pc = "up"
          /\ \/ cur.kind > n
             \/ phase \in {"summary", "returned"}
             \/ cur.kind = n /\ phase = "rows" /\ cur.idx > Len(cur.rows)

\* C8: the conversion gives the k-th parsed row order_index k, the rows with
\* an empty headword included; the order_index values the import inserts from
\* one file are strictly increasing in insertion order, and once the file is
\* done they are exactly the positions of the rows that have a headword.
C8_OrderIndex ==
    \A n \in 1..3 :
        LET kind == Kinds[n]
            idx == InsertedIndexes(kind)
        IN  /\ outFiles[kind].exists =>
                /\ Len(converted[kind]) = Len(parsed[kind])
                /\ \A k \in 1..Len(converted[kind]) :
                      converted[kind][k][Chars("order_index")] = Str(<<DecDigits[k + 1]>>)
            /\ \A k \in 1..Len(idx) : idx[k].t = "number"
            /\ \A k \in 1..Len(idx) - 1 : idx[k].v < idx[k + 1].v
            /\ FileImported(n) => {idx[k].v : k \in 1..Len(idx)} = KeptPositions(kind)

\* an import that dropped the first verb row and inserted the second one
C8_Witness ==
    /\ pc = "idle"
    /\ lastOp = "up"
    /\ ~threw
    /\ Len(converted["verbs"]) = 2
    /\ InsertedIndexes("verbs") = <<Num(2)>>

\* the import migration's up() is running, or was the last migration to end
InUpRun == pc = "up" \/ (pc = "idle" /\ lastOp = "up")

\* the position of a record's word_type in the order verbs, substantives,
\* indeclinables
KindIndexOf(e) == CHOOSE n \in 1..3 : e.data.word_type = Str(wordTypeOf(Kinds[n]))

\* what holds in every state of a run of up()
C11_RunState ==
    /\ (InUpRun /\ threw) =>
          /\ ~printed
          /\ pc = "up" => phase \in {"caught", "thrown"}
    /\ (InUpRun /\ printed) =>
          /\ ~threw
          /\ creates = Len(NewEntries)
          /\ creates = stats["verbs"] + stats["substantives"] + stats["indeclinables"]
    /\ \A n \in 1..Len(NewEntries) - 1 :
          KindIndexOf(NewEntries[n]) <= KindIndexOf(NewEntries[n + 1])

\* what every step of a run of up() does once something threw
C11_StepAfterThrow ==
    (pc = "up" /\ threw) =>
        /\ creates' = creates
        /\ ~printed'
        /\ phase = "caught" => (pc' = "up" /\ phase' = "thrown" /\ db' = db)
        /\ phase = "thrown" => (pc' = "idle" /\ threw' /\ db' = snapshot)

\* C11: once a file read or a create call of up() throws, the run makes no
\* further create call, for the later rows of the file or for the later
\* files (which are gone through in the order verbs, substantives,
\* indeclinables); the error leaves the transaction callback and the summary
\* is not printed. The summary is printed only in a run whose every create
\* call succeeded.
C11_AbortOnFirstError == []C11_RunState /\ [][C11_StepAfterThrow]_vars

\* the create call for the first of two verb rows was rejected: the error
\* has left the callback, the second row and the later files are untouched
C11_Witness ==
    /\ pc = "up"
    /\ phase = "thrown"
    /\ threw
    /\ cur.kind = 1
    /\ cur.idx = 1
    /\ Len(cur.rows) = 2
    /\ ~skipRow(cur.rows[2])
    /\ outFiles["substantives"].exists
    /\ creates = 1
    /\ ~printed

\* the gana cell of the source row a new verb record came from: the
\* conversion numbered the parsed rows from 1 in order_index
SourceGana(e) == Get(parsed["verbs"][e.data.order_index.v], Col_gana)

\* a cell that is blank or a placeholder dash
IsPlaceholder(g) == trim(g.v) = <<>> \/ g.v \in {<<Hyphen>>, <<EmDash>>}

\* a cell made of decimal digits only
IsIntegerText(g) == g.v # <<>> /\ \A k \in 1..Len(g.v) : isDigit(g.v[k], DecDigits)

\* C12 as stated: the verb_class of every verb record the import inserts is
\* absent or the integer value of the gana cell of its source row, and it is
\* absent when that cell is blank, '-' or the em dash.
C12_Original ==
    \A n \in 1..Len(NewEntries) :
        LET e == NewEntries[n]
        IN  e.data.word_type = Str(Chars("verb")) =>
                LET g == SourceGana(e)
                    vc == e.data.verb_class
                IN  /\ IsPlaceholder(g) => vc = Undefined
                    /\ \/ vc = Undefined
                       \/ /\ IsIntegerText(g)
                          /\ vc = Num(digitsPrefix(g.v, DecDigits, 0, FALSE))

====
